---- MODULE Spec2Model ----
(***************************************************************************)
(* Hatlab_RFSOC: the N-dimensional sweep compiler (NDAveragerProgram), the *)
(* register allocator (new_reg) and the acquisition pipeline               *)
(* (acquire_round / acquire) of core/averager_program.py.                  *)
(*                                                                         *)
(* These state machines share this module:                                 *)
(*   SpecBuild / SpecRun : add_sweep, make_program and the execution of the*)
(*                         emitted program by the tProc;                   *)
(*   SpecReg             : new_reg calls on the generator channels;        *)
(*   SpecAcq / SpecPoll  : acquire, its rounds and the polling loop;       *)
(*   SpecSweep, SpecShots, SpecChs, SpecFlatten, SpecCfg : QickSweep,      *)
(*                         get_single_shots, flattenSweepDict and the      *)
(*                         constructor's declare_all_gens, called alone;   *)
(*   SpecData / SpecAnyOrder : QickDataDict.add_data and its reader;       *)
(*   SpecWave            : add_waveform and the envelopes of pulses.py.    *)
(* Python floats are modelled as exact rationals [num, den], den > 0.      *)
(***************************************************************************)
EXTENDS Integers, Sequences, FiniteSets, TLC

VARIABLES
    \* ---- NDAveragerProgram and the tProc that executes its program
    phase,        \* where the host is: "initialize", "made", "running", "halted", "error"
    err,          \* the exception a failed call raised ("" when none)
    reps,         \* cfg["reps"]
    qick_sweeps,  \* self.qick_sweeps
    added,        \* the arguments of the add_sweep calls so far, in call order
    expts,        \* self.expts
    prog_list,    \* the emitted instructions
    labels,       \* label name -> address of the instruction it marks
    pc,           \* tProc program counter (index into prog_list)
    regs,         \* tProc registers, <<page, addr>> -> value
    mem,          \* tProc data memory, address -> value
    body_runs,    \* number of body executions so far
    pt,           \* per sweep: updates applied since its last reset (its point index)
    \* ---- register allocation (APAveragerProgram.new_reg)
    user_regs,     \* self._user_regs: the <<page, addr>> pairs allocated
    user_reg_dict, \* self.user_reg_dict: gen_ch -> (name -> <<page, addr>>)
    ret,           \* the last new_reg call: its arguments and its outcome
    returned,      \* every <<page, addr>> a new_reg call has returned
    reused,        \* TRUE once a call has returned a pair returned before
    nside,         \* number of new_reg calls made on channels other than "g1"
    nnamed,        \* number of new_reg calls made with a caller-supplied name
    \* ---- acquisition (APAveragerProgram.acquire / acquire_round)
    acq_pc,        \* "idle", "poll" (in acquire_round's while loop), "done", "error"
    cfg_rounds,    \* cfg["rounds"]: None when the key is absent
    signal,           \* the synthetic data source: "ramp" or "const"
    threshold,     \* acquire's threshold argument (None or a number)
    rpe,           \* readouts_per_experiment
    save_experiments, \* save_experiments, after the None default is applied
    ii,            \* acquire's round index
    nrounds,       \* number of acquire_round calls made
    count,         \* acquire_round's count: the write offset
    d_buf,         \* acquire_round's d_buf: channel -> (1 = I, 2 = Q) -> samples
    stats,         \* self.stats
    written,       \* per buffer position: how often the loop has written it
    hw_sent,       \* samples the hardware has delivered in this round
    hw_chunks,     \* chunks the hardware has delivered in this round
    di_buf,        \* self.di_buf
    dq_buf,        \* self.dq_buf
    di_buf_p,      \* self.di_buf_p: channel -> row -> samples
    dq_buf_p,      \* self.dq_buf_p
    avg_di,        \* acquire's accumulated avg_di (None before the first round)
    avg_dq,        \* acquire's accumulated avg_dq
    round_avgs,    \* what each acquire_round call returned, in call order
    acq_ret,       \* what acquire returned (None until it returns)
    \* ---- constructors and functions called on their own
    fcall,         \* the latest call: the function's name and its arguments
    fout,          \* what that call returned, or the exception it raised
    gen_chs,       \* cfg["gen_chs"]: channel name -> its keyword dictionary
    declared,      \* the declare_gen calls of the latest program construction
    \* ---- the result container (data/datadict.py)
    qdd,           \* the QickDataDict: its fields, columns and metadata
    expt,          \* the experiment that fills it: the shape of the data of one run
    \* ---- the waveform library of the program (QickProgram.add_pulse)
    pulses         \* <<generator channel number, name>> -> the I and Q samples

ndvars  == <<phase, err, reps, qick_sweeps, added, expts, prog_list, labels, pc, regs, mem, body_runs, pt>>
regvars == <<user_regs, user_reg_dict, ret, returned, reused, nside, nnamed>>
acqvars == <<acq_pc, cfg_rounds, signal, threshold, rpe, save_experiments, ii, nrounds, count,
             d_buf, stats, written, hw_sent, hw_chunks, di_buf, dq_buf, di_buf_p, dq_buf_p,
             avg_di, avg_dq, round_avgs, acq_ret>>
fnvars  == <<fcall, fout>>
cfgvars == <<gen_chs, declared>>
ddvars  == <<qdd, expt>>
wfvars  == <<pulses>>
libvars == <<fnvars, cfgvars, ddvars, wfvars>>
vars    == <<ndvars, regvars, acqvars, libvars>>

-----------------------------------------------------------------------------
(* Bounds of the model *)
MaxReps        == 2   \* cfg["reps"] ranges over 1..MaxReps
MaxExpts       == 3   \* a sweep's point-count ranges over 2..MaxExpts
MaxRunSweeps   == 3   \* sweeps registered before a program that is executed
MaxShots       == 12  \* programs with reps * expts <= MaxShots are executed
MaxBuildSweeps == 8   \* sweeps registered in the construction-only specification
MaxSideCalls   == 1   \* new_reg calls on the channels other than "g1"
MaxNamedCalls  == 1   \* new_reg calls that pass a name
MaxAcqExpts    == 2   \* self.expts of an acquiring program ranges over 1..MaxAcqExpts
MaxRpe         == 2   \* readouts_per_experiment ranges over 1..MaxRpe
MaxRounds      == 3   \* cfg["rounds"] ranges over 1..MaxRounds, or is absent
NumRo          == 2   \* readout channels declared
MaxChunk       == 2   \* samples in one chunk of poll_data
MaxPollChunks  == 2   \* chunks one poll_data call returns
MaxSamples     == 7   \* largest reps * expts * readouts_per_experiment acquired
MaxRawI        == 7   \* raw I values handed to get_single_shots range over -1..MaxRawI
MaxRawQ        == 1   \* raw Q values handed to it range over -MaxRawQ..MaxRawQ
MaxThreshold   == 2   \* thresholds handed to it range over 1..MaxThreshold
MaxFlattenKeys == 3   \* sweep dictionaries handed to flattenSweepDict have 1..MaxFlattenKeys keys
MaxSweepLen    == 3   \* each of their value arrays has 1..MaxSweepLen entries
MaxInnerKeys   == 3   \* a QickDataDict declares 1..MaxInnerKeys inner sweeps
MaxOuterKeys   == 2   \* and 0..MaxOuterKeys outer sweeps
MaxAxisLen     == 2   \* each declared sweep has 2..MaxAxisLen tick values
MaxMsmts       == 2   \* measurements per experiment of the data added: 1..MaxMsmts
MaxBufReps     == 2   \* repetitions in the raw buffers added: 1..MaxBufReps
MaxRecords     == 16  \* largest number of records one container is filled with
FloatBits      == 8   \* bits of the significand of the floats of QickSweep
MaxPoints      == 5   \* QickSweep is constructed with 1..MaxPoints points
MaxStart       == 3   \* and with start and stop in -MaxStart..MaxStart
MaxGens        == 3   \* cfg["gen_chs"] has 1..MaxGens entries
MaxPrograms    == 2   \* programs constructed from one cfg
MaxShotChs     == 3   \* get_single_shots is called on programs with 1..MaxShotChs readouts

-----------------------------------------------------------------------------
(* Values *)

\* Python None for an optional number: <<>> is None, <<v>> is the number v
None    == <<>>
Some(v) == <<v>>

\* QickRegister.name when the register was constructed without a name
NoName == "None"

\* no constructor or function has been called on its own, no container exists
NoFun == [f |-> "", args |-> None]

\* a call's outcome: the value it returned, or the exception it raised
Ok(v) == [err |-> "", val |-> v]
Raise(e) == [err |-> e, val |-> None]

LibIdle ==
    /\ fcall = NoFun
    /\ fout = Ok(None)
    /\ gen_chs = None
    /\ declared = <<>>
    /\ qdd = None
    /\ expt = None
    /\ pulses = <<>>

Rat(n, d) == [num |-> n, den |-> d]

Abs(x) == IF x < 0 THEN -x ELSE x

RECURSIVE GCD(_, _)
GCD(a, b) == IF b = 0 THEN a ELSE GCD(b, a % b)

\* a float: the exact value as a reduced fraction
Norm(q) == LET g == GCD(Abs(q.num), q.den) IN Rat(q.num \div g, q.den \div g)

RatAdd(x, y) == Norm(Rat(x.num * y.den + y.num * x.den, x.den * y.den))
RatDiv(x, n) == Norm(Rat(x.num, x.den * n))

RatSub(x, y) == RatAdd(x, Rat(-y.num, y.den))
RatMul(x, y) == Norm(Rat(x.num * y.num, x.den * y.den))
RatLeq(x, y) == x.num * y.den <= y.num * x.den
RatAbs(x)    == Rat(Abs(x.num), x.den)

RECURSIVE Pow2(_)
Pow2(e) == IF e = 0 THEN 1 ELSE 2 * Pow2(e - 1)

\* n / d (n >= 0, d > 0) rounded to the nearest integer, ties to the even one
RoundHalfEven(n, d) ==
    LET q == n \div d
        r == n % d
    IN  IF 2 * r < d THEN q
        ELSE IF 2 * r > d THEN q + 1
        ELSE IF q % 2 = 0 THEN q ELSE q + 1

\* n / d (n > 0) scaled by a power of two into [2^(FloatBits-1), 2^FloatBits):
\* the scaled fraction and the exponent
SignificandMax == Pow2(FloatBits)
SignificandMin == Pow2(FloatBits - 1)

RECURSIVE Scale(_, _, _)
Scale(n, d, e) ==
    IF n >= d * SignificandMax THEN Scale(n, 2 * d, e + 1)
    ELSE IF n < d * SignificandMin THEN Scale(2 * n, d, e - 1)
    ELSE <<n, d, e>>

\* the floating-point number nearest to the fraction q: a significand of
\* FloatBits bits (float64 has 53), round to nearest, ties to even
Fl(q) ==
    IF q.num = 0 THEN Rat(0, 1)
    ELSE LET sc == Scale(Abs(q.num), q.den, 0)
             m  == RoundHalfEven(sc[1], sc[2])
             sg == IF q.num < 0 THEN -1 ELSE 1
         IN  IF sc[3] >= 0 THEN Rat(sg * m * Pow2(sc[3]), 1)
             ELSE Norm(Rat(sg * m, Pow2(-sc[3])))

\* float arithmetic: the exact result, rounded
FSub(x, y) == Fl(RatSub(x, y))
FAdd(x, y) == Fl(RatAdd(x, y))
FMul(x, y) == Fl(RatMul(x, y))
FDiv(x, n) == Fl(RatDiv(x, n))

\* np.int32(x) of a float x = a / b (b > 0): truncation toward zero
TruncDiv(a, b) == IF a >= 0 THEN a \div b ELSE -((-a) \div b)

RECURSIVE Product(_)
Product(s) == IF s = <<>> THEN 1 ELSE Head(s) * Product(Tail(s))

Reverse(s) == [i \in 1..Len(s) |-> s[Len(s) + 1 - i]]

\* str(n) for the counter registers, as used in f"LOOP_{creg}"
Str(n) ==
    CASE n = 15 -> "15" [] n = 16 -> "16" [] n = 17 -> "17" [] n = 18 -> "18"
      [] n = 19 -> "19" [] n = 20 -> "20" [] n = 21 -> "21" [] OTHER -> "22"

-----------------------------------------------------------------------------
(* QickRegister (untyped registers: reg_type = None) *)

QickRegister(page, addr, name, init_val) ==
    [page |-> page, addr |-> addr, name |-> name, init_val |-> init_val]

\* QickRegister.val2reg for reg_type None: np.int32(val); val is a rational
val2reg(val) == TruncDiv(val.num, val.den)

\* QickRegister.reset: safe_regwi(page, addr, val2reg(init_val)); np.int32(None)
\* raises TypeError, so the instruction exists only when init_val is not None
CanReset(reg) == reg.init_val # None

ResetInst(reg, tag) ==
    [op |-> "regwi", page |-> reg.page, addr |-> reg.addr, src |-> 0,
     val |-> val2reg(Rat(reg.init_val[1], 1)), label |-> "", swp |-> tag]

-----------------------------------------------------------------------------
(* QickSweep *)

\* the step (stop - start) / (n - 1) of two numbers, as a float
StepVal(start, stop, n) == FDiv(FSub(Fl(Rat(stop, 1)), Fl(Rat(start, 1))), n - 1)

\* a variant of np.linspace that leaves the end point out (endpoint=False)
linspace_open(start, stop, n) ==
    [k \in 1..n |-> FAdd(FMul(Rat(k - 1, 1), StepVal(start, stop, n + 1)), Fl(Rat(start, 1)))]

\* np.linspace(start, stop, n) for n >= 2: step = (stop - start) / (n - 1),
\* y = arange(n) * step + start, and y[-1] = stop
linspace(start, stop, n) ==
    [k \in 1..n |->
        IF k = n THEN Fl(Rat(stop, 1))
        ELSE FAdd(FMul(Rat(k - 1, 1), StepVal(start, stop, n)), Fl(Rat(start, 1)))]

\* QickSweep.__init__
QickSweep(reg, start, stop, n) ==
    [reg |-> reg, start |-> start, stop |-> stop, expts |-> n,
     reg_step |-> val2reg(StepVal(start, stop, n)),
     init_val |-> start,
     sweep_array |-> linspace(start, stop, n)]

\* QickSweep.update: mathi(page, addr, addr, '+', reg_step)
UpdateInst(swp, tag) ==
    [op |-> "mathi", page |-> swp.reg.page, addr |-> swp.reg.addr, src |-> swp.reg.addr,
     val |-> swp.reg_step, label |-> "", swp |-> tag]

\* QickSweep.reset: self.reg.reset()
SweepResetInst(swp, tag) == ResetInst(swp.reg, tag)


-----------------------------------------------------------------------------
(* NDAveragerProgram.make_program: the emitted program *)

Inst(op, page, addr, src, val, label, swp) ==
    [op |-> op, page |-> page, addr |-> addr, src |-> src, val |-> val,
     label |-> label, swp |-> swp]

\* rcount = 13: total run counter
rcount == 13
\* rep_count = 14: repetition counter
rep_count == 14
\* counter registers start at 15
FirstCounterReg == 15
\* if counter_regs[-1] > 21: raise OverflowError
LastCounterReg == 21

\* counter_regs = (np.arange(n_sweeps) + 15).tolist()
counter_regs(n) == [i \in 1..n |-> (i - 1) + FirstCounterReg]

\* the program under construction: the instruction list and the label dictionary
EmptyProg == [prog_list |-> <<>>, labels |-> [x \in {} |-> 0]]

\* QickProgram instruction emission: the instruction is appended to the program
AppendInst(p, inst) == [p EXCEPT !.prog_list = Append(@, inst)]

\* QickProgram.label: the name is bound to the next instruction's address; the
\* labels are kept in a dictionary, so a name defined again is rebound
DefLabel(p, name) == [p EXCEPT !.labels = (name :> (Len(p.prog_list) + 1)) @@ @]

\* f"LOOP_{swp.reg.name if swp.reg.name is not None else creg}", without "LOOP_"
LoopLabel(swp, creg) == IF swp.reg.name # NoName THEN swp.reg.name ELSE Str(creg)

\* the label of the repetition loop, "LOOP_rep", without "LOOP_"
RepLabel == "rep"

\* for creg, swp in zip(counter_regs[::-1], self.qick_sweeps[::-1]):
\*     swp.reset(); p.regwi(0, creg, swp.expts - 1); p.label(...)
RECURSIVE EmitSetup(_, _, _, _)
EmitSetup(p, sweeps, cregs, k) ==
    IF k = 0 THEN p
    ELSE LET p1 == AppendInst(p, SweepResetInst(sweeps[k], k))
             p2 == AppendInst(p1, Inst("regwi", 0, cregs[k], 0, sweeps[k].expts - 1, "", 0))
             p3 == DefLabel(p2, LoopLabel(sweeps[k], cregs[k]))
         IN  EmitSetup(p3, sweeps, cregs, k - 1)

\* for creg, swp in zip(counter_regs, self.qick_sweeps):
\*     swp.update(); p.loopnz(0, creg, ...)
RECURSIVE EmitLoops(_, _, _, _)
EmitLoops(p, sweeps, cregs, k) ==
    IF k > Len(sweeps) THEN p
    ELSE LET p1 == AppendInst(p, UpdateInst(sweeps[k], k))
             p2 == AppendInst(p1, Inst("loopnz", 0, cregs[k], 0, 0,
                                       LoopLabel(sweeps[k], cregs[k]), 0))
         IN  EmitLoops(p2, sweeps, cregs, k + 1)

\* body(), total-run counter ++, persisted to memory address 1
EmitBody(p) ==
    LET p1 == AppendInst(p, Inst("body", 0, 0, 0, 0, "", 0))
        p2 == AppendInst(p1, Inst("mathi", 0, rcount, rcount, 1, "", 0))
    IN  AppendInst(p2, Inst("memwi", 0, rcount, 0, 1, "", 0))

\* the instructions and labels make_program emits for a list of sweeps it accepts
EmitProgram(sweeps, nreps) ==
    LET n     == Len(sweeps)
        cregs == counter_regs(n)
        p1 == AppendInst(EmptyProg, Inst("regwi", 0, rcount, 0, 0, "", 0))
        p2 == AppendInst(p1, Inst("regwi", 0, rep_count, 0, nreps - 1, "", 0))
        p3 == DefLabel(p2, RepLabel)
        p4 == EmitSetup(p3, sweeps, cregs, n)
        p5 == EmitBody(p4)
        p6 == EmitLoops(p5, sweeps, cregs, 1)
        p7 == AppendInst(p6, Inst("loopnz", 0, rep_count, 0, 0, RepLabel, 0))
    IN  AppendInst(p7, Inst("end", 0, 0, 0, 0, "", 0))

\* the exception make_program raises for a list of sweeps, "" when it raises none
MakeProgramError(sweeps) ==
    LET n == Len(sweeps) IN
    IF n = 0 THEN "IndexError"                                    \* counter_regs[-1] of []
    ELSE IF counter_regs(n)[n] > LastCounterReg THEN "OverflowError"
    ELSE IF \E k \in 1..n : ~CanReset(sweeps[k].reg) THEN "TypeError"  \* swp.reset()
    ELSE ""


-----------------------------------------------------------------------------
(* APAveragerProgram.new_reg *)

\* cfg["gen_chs"]: generator channel name -> its "ch"
GenChs == {"g1", "g2", "g3"}
GenCh(g) == CASE g = "g1" -> 1 [] g = "g2" -> 2 [] OTHER -> 3

\* QickProgram.ch_page: channels 1 and 2 share page 1, channels 3 and 4 page 2
ch_page(ch) == (ch + 1) \div 2

\* if addr > 12: raise ValueError
MaxUserAddr == 12

\* f"reg_{addr}"
RegName(addr) ==
    CASE addr = 1 -> "reg_1" [] addr = 2 -> "reg_2" [] addr = 3 -> "reg_3"
      [] addr = 4 -> "reg_4" [] addr = 5 -> "reg_5" [] addr = 6 -> "reg_6"
      [] addr = 7 -> "reg_7" [] addr = 8 -> "reg_8" [] addr = 9 -> "reg_9"
      [] addr = 10 -> "reg_10" [] addr = 11 -> "reg_11" [] OTHER -> "reg_12"

\* a variant of the scan that skips only the addresses allocated below 12
RECURSIVE ScanFreeWrap(_, _, _)
ScanFreeWrap(allocated, page, addr) ==
    IF <<page, addr>> \in allocated /\ addr < MaxUserAddr
    THEN ScanFreeWrap(allocated, page, addr + 1) ELSE addr

\* addr = 1; while (page, addr) in self._user_regs: addr += 1
RECURSIVE ScanFree(_, _, _)
ScanFree(allocated, page, addr) ==
    IF <<page, addr>> \in allocated THEN ScanFree(allocated, page, addr + 1) ELSE addr

FreeAddr(allocated, page) == ScanFree(allocated, page, 1)

\* the names a caller passes: NoName for name = None
CallNames == {NoName, "a", "reg_2"}

NoCall == [kind |-> "", gen_ch |-> "", name |-> "", page |-> 0, addr |-> 0]

RegIdle ==
    /\ user_regs = {}                                 \* self._user_regs = []
    /\ user_reg_dict = [g \in GenChs |-> [x \in {} |-> <<0, 0>>]]  \* declare_all_gens
    /\ ret = NoCall
    /\ returned = {}
    /\ reused = FALSE
    /\ nside = 0
    /\ nnamed = 0

\* a variant of the name test that never finds the name
NameNeverTaken(table, nm) == FALSE

\* name in self.user_reg_dict[gen_ch].keys()
NameTaken(table, nm) == nm \in DOMAIN table

\* new_reg(gen_ch, name): the list _user_regs is only ever tested for membership
\* and appended to, so it is kept as the set of its elements
new_reg(gen_ch, name) ==
    LET page == ch_page(GenCh(gen_ch))
        addr == FreeAddr(user_regs, page)
        nm   == IF name = NoName THEN RegName(addr) ELSE name
    IN
    /\ nside' = IF gen_ch # "g1" THEN nside + 1 ELSE nside
    /\ nnamed' = IF name # NoName THEN nnamed + 1 ELSE nnamed
    /\ IF addr > MaxUserAddr
       THEN \* raise ValueError before anything is recorded
            /\ ret' = [kind |-> "ValueError", gen_ch |-> gen_ch, name |-> name,
                       page |-> page, addr |-> addr]
            /\ UNCHANGED <<user_regs, user_reg_dict, returned, reused>>
       ELSE /\ user_regs' = user_regs \cup {<<page, addr>>}   \* self._user_regs.append
            /\ IF NameTaken(user_reg_dict[gen_ch], nm)
               THEN \* raise KeyError, after the append
                    /\ ret' = [kind |-> "KeyError", gen_ch |-> gen_ch, name |-> name,
                               page |-> page, addr |-> addr]
                    /\ UNCHANGED <<user_reg_dict, returned, reused>>
               ELSE /\ user_reg_dict' =
                          [user_reg_dict EXCEPT ![gen_ch] = (nm :> <<page, addr>>) @@ @]
                    /\ ret' = [kind |-> "ok", gen_ch |-> gen_ch, name |-> name,
                               page |-> page, addr |-> addr]
                    /\ returned' = returned \cup {<<page, addr>>}
                    /\ reused' = (reused \/ <<page, addr>> \in returned)
    /\ UNCHANGED <<ndvars, acqvars, libvars>>

-----------------------------------------------------------------------------
(* Acquisition: numpy arrays and float arithmetic *)

RECURSIVE SumSeq(_)
SumSeq(s) == IF s = <<>> THEN 0 ELSE Head(s) + SumSeq(Tail(s))

\* np.zeros(n)
Zeros(n) == [j \in 1..n |-> 0]

\* buf[start::step]
StridedSlice(buf, start, step) ==
    LET n == IF Len(buf) <= start THEN 0 ELSE (Len(buf) - start + step - 1) \div step
    IN  [j \in 1..n |-> buf[start + (j - 1) * step + 1]]

\* flat.reshape((rows, cols))
Reshape(flat, rows, cols) ==
    [r \in 1..rows |-> [c \in 1..cols |-> flat[(r - 1) * cols + c]]]

\* np.sum(m, 0) of a matrix with cols columns
SumAxis0(m, cols) == [c \in 1..cols |-> SumSeq([r \in 1..Len(m) |-> m[r][c]])]

\* element-wise a + b and a / n of arrays indexed [channel][nn][e]
ArrAdd(a, b) ==
    [ch \in DOMAIN a |-> [nn \in DOMAIN a[ch] |-> [e \in DOMAIN a[ch][nn] |->
        RatAdd(a[ch][nn][e], b[ch][nn][e])]]]
ArrDiv(a, n) ==
    [ch \in DOMAIN a |-> [nn \in DOMAIN a[ch] |-> [e \in DOMAIN a[ch][nn] |->
        RatDiv(a[ch][nn][e], n)]]]

-----------------------------------------------------------------------------
(* Acquisition: configuration and the hardware's sample stream *)

\* self.ro_chs: the readout channels, and ro.length of each
RoChs == 1..NumRo
RoLength(ch) == ch + 1

\* rounds = self.cfg.get("rounds", 1)
Rounds == IF cfg_rounds = None THEN 1 ELSE cfg_rounds[1]

\* total_count = reps * expts * readouts_per_experiment
TotalCount == reps * expts * rpe

\* msmt_per_rep = expts * readouts_per_experiment
MsmtPerRep == expts * rpe

\* the accumulated I and Q value of the k-th sample (k = 1, 2, ...) the hardware
\* delivers on readout channel ch in round number round (0, 1, ...)
RawI(ch, round, k) == IF signal = "const" THEN 7 ELSE 500 * ch + 100 * round + k
RawQ(ch, round, k) == IF signal = "const" THEN -7 ELSE -(500 * ch + 100 * round + k)

\* the lists of chunk sizes one poll_data call can return
ChunkSizes ==
    UNION {[1..n -> 1..MaxChunk] : n \in 0..MaxPollChunks}

\* the chunks (d, s) of one poll_data call: chunk j holds sizes[j] samples, which
\* follow the samples delivered before it; its status s is its ordinal number
PollData(sizes) ==
    [j \in 1..Len(sizes) |->
        [n    |-> sizes[j],
         base |-> hw_sent + SumSeq(SubSeq(sizes, 1, j - 1)),
         s    |-> hw_chunks + j]]

\* d of a chunk: d[ch][1 or 2][x], shape (n_ro, 2, new_points)
ChunkData(c, round) ==
    [ch \in RoChs |->
        <<[x \in 1..c.n |-> RawI(ch, round, c.base + x)],
          [x \in 1..c.n |-> RawQ(ch, round, c.base + x)]>>]

-----------------------------------------------------------------------------
(* acquire_round: the polling loop *)

Min(a, b) == IF a <= b THEN a ELSE b

\* number of positions of the slice count:count + new_points of a buffer of
\* total positions
SliceLen(total, cnt, new_points) == Min(total, cnt + new_points) - Min(total, cnt)

\* a variant of the offset update that counts chunks instead of samples
NextCountByChunk(cnt, new_points) == cnt + 1

\* the write offset after a chunk of new_points samples: count += new_points
NextCount(cnt, new_points) == cnt + new_points

\* d_buf[:, :, count:count + new_points] = d
WriteChunk(buf, cnt, d) ==
    [ch \in RoChs |-> [q \in 1..2 |-> [j \in 1..Len(buf[ch][q]) |->
        IF cnt < j /\ j <= cnt + Len(d[ch][q]) THEN d[ch][q][j - cnt] ELSE buf[ch][q][j]]]]

\* one iteration of "for d, s in new_data"; st is the loop's state.  When the
\* slice is shorter than the chunk numpy raises ValueError, except that a chunk
\* of one sample is broadcast into an empty slice and dropped
ProcessChunk(st, c, round) ==
    LET total == Len(st.written)
        m     == SliceLen(total, st.count, c.n)
    IN  IF m # c.n /\ ~(c.n = 1 /\ m = 0)
        THEN [st EXCEPT !.err = "ValueError"]
        ELSE [count   |-> NextCount(st.count, c.n),
              d_buf   |-> IF m = c.n THEN WriteChunk(st.d_buf, st.count, ChunkData(c, round))
                          ELSE st.d_buf,
              stats   |-> Append(st.stats, c.s),
              written |-> [j \in 1..total |->
                              IF m = c.n /\ st.count < j /\ j <= st.count + c.n
                              THEN st.written[j] + 1 ELSE st.written[j]],
              err     |-> ""]

\* for d, s in new_data: ...
RECURSIVE Consume(_, _, _)
Consume(st, chunks, round) ==
    IF chunks = <<>> \/ st.err # "" THEN st
    ELSE Consume(ProcessChunk(st, Head(chunks), round), Tail(chunks), round)

-----------------------------------------------------------------------------
(* acquire_round: reduction *)

\* np.cos and np.sin of the default angle, 0
Cos(angle) == CASE angle = 0 -> 1
Sin(angle) == CASE angle = 0 -> 0

\* a variant of the step function that is 1 at 0
heaviside_closed(x, h0) == IF x.num < 0 THEN 0 ELSE 1

\* np.heaviside(x, h0): 0 below 0, h0 at 0, 1 above 0
heaviside(x, h0) == IF x.num < 0 THEN 0 ELSE IF x.num = 0 THEN h0 ELSE 1

\* get_single_shots with the default angle [0, 0] and an int threshold t, which
\* becomes [t, t]: per channel i and sample,
\* np.heaviside((di[i] * cos(angle[i]) - dq[i] * sin(angle[i])) / length - t, 0)
get_single_shots(di, dq, t) ==
    [ch \in RoChs |-> [k \in 1..Len(di[ch]) |->
        heaviside(Rat((di[ch][k] * Cos(0) - dq[ch][k] * Sin(0)) - t * RoLength(ch),
                      RoLength(ch)), 0)]]

\* threshold[i] and angle[i] exist for the first two readout channels only
SingleShotsError == IF NumRo > 2 THEN "IndexError" ELSE ""

\* a variant of the average that reads the samples from start on contiguously
AverageContiguous(buf, i0, length) ==
    LET sums == SumAxis0(Reshape([j \in 1..(reps * expts) |-> buf[i0 + j]], reps, expts), expts)
    IN  [e \in 1..expts |-> Norm(Rat(sums[e], reps * length))]

\* np.sum(buf[ii::readouts_per_experiment].reshape((reps, expts)), 0) / reps / length
AverageOf(buf, i0, length) ==
    LET sums == SumAxis0(Reshape(StridedSlice(buf, i0, rpe), reps, expts), expts)
    IN  [e \in 1..expts |-> Norm(Rat(sums[e], reps * length))]

\* avg_di, avg_dq of one acquire_round call
RoundAverages(dI, dQ) ==
    LET nsave == Len(save_experiments) IN
    IF threshold = None
    THEN [i |-> [ch \in RoChs |-> [nn \in 1..nsave |->
                    AverageOf(dI[ch], save_experiments[nn], RoLength(ch))]],
          q |-> [ch \in RoChs |-> [nn \in 1..nsave |->
                    AverageOf(dQ[ch], save_experiments[nn], RoLength(ch))]]]
    ELSE LET sh == get_single_shots(dI, dQ, threshold[1]) IN
         [i |-> [ch \in RoChs |-> [nn \in 1..nsave |->
                    AverageOf(sh[ch], save_experiments[nn], 1)]],
          q |-> [ch \in RoChs |-> [nn \in 1..nsave |-> [e \in 1..expts |-> Rat(0, 1)]]]]

-----------------------------------------------------------------------------
(* acquire *)

\* a variant of the row offset that advances one row per round
RowStartUnscaled(round) == round

\* the first row (counted from 0) of round number round in di_buf_p / dq_buf_p
RowStart(round) == reps * round

\* buf_p[:, reps * ii : reps * (ii + 1), :] = buf.reshape(n_ro, reps, -1)
StoreRound(buf_p, buf, round) ==
    [ch \in RoChs |-> [row \in 1..Len(buf_p[ch]) |->
        IF RowStart(round) < row /\ row <= RowStart(round) + reps
        THEN Reshape(buf[ch], reps, Len(buf[ch]) \div reps)[row - RowStart(round)]
        ELSE buf_p[ch][row]]]

\* a variant of the accumulation that keeps the latest round only
KeepLatest(acc, avg0) == avg0

\* avg_di, avg_dq = avg_di0, avg_dq0 in the first round, += afterwards
Accumulate(acc, avg0) == IF acc = None THEN avg0 ELSE ArrAdd(acc, avg0)

\* the state in which acquire_round enters its while loop
EnterPollLoop(total) ==
    /\ count' = 0
    /\ d_buf' = [ch \in RoChs |-> <<Zeros(total), Zeros(total)>>]
    /\ stats' = <<>>
    /\ written' = Zeros(total)
    /\ hw_sent' = 0
    /\ hw_chunks' = 0

ThresholdChoices == {None, Some(300)}

\* save_experiments arguments: None, or a list of readout indices
SaveChoices(r) ==
    ({None} \cup {<<a>> : a \in 0..(r - 1)})
        \cup {p \in (0..(r - 1)) \X (0..(r - 1)) : p[1] < p[2]}

AcqIdle ==
    /\ acq_pc = "idle"
    /\ cfg_rounds = None
    /\ signal = "ramp"
    /\ threshold = None
    /\ rpe = 1
    /\ save_experiments = <<0>>
    /\ ii = 0
    /\ nrounds = 0
    /\ count = 0
    /\ d_buf = <<>>
    /\ stats = <<>>
    /\ written = <<>>
    /\ hw_sent = 0
    /\ hw_chunks = 0
    /\ di_buf = <<>>
    /\ dq_buf = <<>>
    /\ di_buf_p = <<>>
    /\ dq_buf_p = <<>>
    /\ avg_di = None
    /\ avg_dq = None
    /\ round_avgs = <<>>
    /\ acq_ret = None

\* acquire(soc, threshold, readouts_per_experiment, save_experiments), up to the
\* while loop of its first acquire_round call
acquire(thr, r, save) ==
    /\ acq_pc = "idle"
    /\ reps * expts * r <= MaxSamples
    /\ threshold' = thr
    /\ rpe' = r
    /\ save_experiments' = IF save = None THEN <<0>> ELSE save
    /\ di_buf_p' = [ch \in RoChs |-> [row \in 1..(reps * Rounds) |-> Zeros(expts * r)]]
    /\ dq_buf_p' = [ch \in RoChs |-> [row \in 1..(reps * Rounds) |-> Zeros(expts * r)]]
    /\ avg_di' = None
    /\ avg_dq' = None
    /\ ii' = 0
    /\ nrounds' = 1
    /\ EnterPollLoop(reps * expts * r)
    /\ acq_pc' = "poll"
    /\ UNCHANGED <<cfg_rounds, signal, di_buf, dq_buf, round_avgs, acq_ret>>
    /\ UNCHANGED <<ndvars, regvars, libvars>>

\* a variant of the loop condition that leaves the loop one sample early
LoopConditionEarly(cnt, total) == cnt + 1 < total

\* while count < total_count
LoopCondition(cnt, total) == cnt < total

\* one iteration of "while count < total_count": poll_data and the for loop
Poll(sizes) ==
    /\ acq_pc = "poll"
    /\ LoopCondition(count, TotalCount)
    /\ \E st \in {Consume([count |-> count, d_buf |-> d_buf, stats |-> stats,
                            written |-> written, err |-> ""], PollData(sizes), ii)} :
           /\ count' = st.count
           /\ d_buf' = st.d_buf
           /\ stats' = st.stats
           /\ written' = st.written
           /\ err' = st.err
           /\ acq_pc' = IF st.err # "" THEN "error" ELSE "poll"
    /\ hw_sent' = hw_sent + SumSeq(sizes)
    /\ hw_chunks' = hw_chunks + Len(sizes)
    /\ UNCHANGED <<cfg_rounds, signal, threshold, rpe, save_experiments, ii, nrounds,
                   di_buf, dq_buf, di_buf_p, dq_buf_p, avg_di, avg_dq, round_avgs, acq_ret>>
    /\ UNCHANGED <<phase, reps, qick_sweeps, added, expts, prog_list, labels, pc, regs, mem,
                   body_runs, pt>>
    /\ UNCHANGED <<regvars, libvars>>

\* the while loop has ended: the rest of acquire_round, then acquire's handling of
\* the round, up to acquire's return or the next round's while loop
RoundEnd ==
    /\ acq_pc = "poll"
    /\ ~LoopCondition(count, TotalCount)
    /\ LET dI == [ch \in RoChs |-> d_buf[ch][1]]
           dQ == [ch \in RoChs |-> d_buf[ch][2]]
           e  == IF threshold # None THEN SingleShotsError ELSE ""
           single == cfg_rounds = None \/ cfg_rounds[1] = 1
           last   == ii + 1 = Rounds
       IN  \E r \in {IF e = "" THEN RoundAverages(dI, dQ) ELSE None} :
           /\ di_buf' = dI
           /\ dq_buf' = dQ
           /\ IF e # ""
              THEN /\ acq_pc' = "error"
                   /\ err' = e
                   /\ UNCHANGED <<ii, nrounds, count, d_buf, stats, written, hw_sent,
                                  hw_chunks, di_buf_p, dq_buf_p, avg_di, avg_dq,
                                  round_avgs, acq_ret>>
              ELSE /\ err' = ""
                   /\ round_avgs' = Append(round_avgs, r)
                   /\ IF single
                      THEN /\ di_buf_p' = [ch \in RoChs |->
                                  Reshape(dI[ch], reps, Len(dI[ch]) \div reps)]
                           /\ dq_buf_p' = [ch \in RoChs |->
                                  Reshape(dQ[ch], reps, Len(dQ[ch]) \div reps)]
                           /\ acq_ret' = r
                           /\ acq_pc' = "done"
                           /\ UNCHANGED <<ii, nrounds, count, d_buf, stats, written,
                                          hw_sent, hw_chunks, avg_di, avg_dq>>
                      ELSE /\ avg_di' = Accumulate(avg_di, r.i)
                           /\ avg_dq' = Accumulate(avg_dq, r.q)
                           /\ di_buf_p' = StoreRound(di_buf_p, dI, ii)
                           /\ dq_buf_p' = StoreRound(dq_buf_p, dQ, ii)
                           /\ ii' = ii + 1
                           /\ IF last
                              THEN /\ acq_ret' = [i |-> ArrDiv(avg_di', cfg_rounds[1]),
                                                  q |-> ArrDiv(avg_dq', cfg_rounds[1])]
                                   /\ acq_pc' = "done"
                                   /\ UNCHANGED <<nrounds, count, d_buf, stats, written,
                                                  hw_sent, hw_chunks>>
                              ELSE /\ nrounds' = nrounds + 1
                                   /\ EnterPollLoop(TotalCount)
                                   /\ acq_pc' = "poll"
                                   /\ UNCHANGED acq_ret
    /\ UNCHANGED <<cfg_rounds, signal, threshold, rpe, save_experiments>>
    /\ UNCHANGED <<phase, reps, qick_sweeps, added, expts, prog_list, labels, pc, regs, mem,
                   body_runs, pt>>
    /\ UNCHANGED <<regvars, libvars>>

-----------------------------------------------------------------------------
(* The sweeps a user's initialize() registers *)

\* the address of the register a name stands for in the construction-only specification
RegAddr(name) == CASE name = "reg_1" -> 1 [] name = "rep" -> 2 [] OTHER -> 3

\* registers of the executed programs: created with an init_val
RunRegs ==
    {QickRegister(1, 1, "reg_1", Some(0)),    \* new_reg on a channel of page 1
     QickRegister(2, 1, "reg_1", Some(0)),    \* new_reg on a channel of page 2
     QickRegister(1, 2, "rep", Some(0)),      \* new_reg(name="rep")
     QickRegister(1, 3, NoName, Some(0)),     \* QickRegister(prog, 1, 3)
     QickRegister(1, 3, NoName, Some(1))}

RunSweeps == {QickSweep(r, 0, 4, n) : r \in RunRegs, n \in 2..MaxExpts}

\* registers of the construction-only specification: with and without an init_val
BuildRegs ==
    {QickRegister(1, RegAddr(nm), nm, iv) :
        nm \in {"reg_1", NoName}, iv \in {None, Some(0)}}

BuildSweeps == {QickSweep(r, 0, 4, 2) : r \in BuildRegs}

\* the tProc registers the programs use
RegFile ==
    {<<0, a>> : a \in rcount..LastCounterReg} \cup {<<1, a>> : a \in 1..3} \cup {<<2, 1>>}

-----------------------------------------------------------------------------
(* NDAveragerProgram: state after __init__ has reached make_program's call of *)
(* initialize(), and the register allocator idle                              *)

NDInit ==
    /\ phase = "initialize"
    /\ err = ""
    /\ reps \in 1..MaxReps
    /\ qick_sweeps = <<>>          \* self.qick_sweeps = []
    /\ added = <<>>
    /\ expts = 1                   \* self.expts = 1
    /\ prog_list = <<>>
    /\ labels = [x \in {} |-> 0]
    /\ pc = 0
    /\ regs = [r \in RegFile |-> 0]
    /\ mem = [a \in {1} |-> 0]
    /\ body_runs = 0
    /\ pt = <<>>

\* a variant of add_sweep that adds the point-count instead of multiplying by it
add_sweep_additive(sweep) ==
    /\ phase = "initialize"
    /\ qick_sweeps' = Append(qick_sweeps, sweep)
    /\ added' = Append(added, sweep)
    /\ expts' = expts + sweep.expts
    /\ UNCHANGED <<phase, err, reps, prog_list, labels, pc, regs, mem, body_runs, pt>>
    /\ UNCHANGED <<regvars, acqvars, libvars>>

\* NDAveragerProgram.add_sweep, called from initialize()
add_sweep(sweep) ==
    /\ phase = "initialize"
    /\ qick_sweeps' = Append(qick_sweeps, sweep)
    /\ added' = Append(added, sweep)
    /\ expts' = expts * sweep.expts
    /\ UNCHANGED <<phase, err, reps, prog_list, labels, pc, regs, mem, body_runs, pt>>
    /\ UNCHANGED <<regvars, acqvars, libvars>>

\* NDAveragerProgram.make_program, after initialize() has returned
make_program ==
    /\ phase = "initialize"
    /\ LET e == MakeProgramError(qick_sweeps)
           p == EmitProgram(qick_sweeps, reps)
       IN  IF e # ""
           THEN /\ phase' = "error"
                /\ err' = e
                /\ UNCHANGED <<prog_list, labels>>
           ELSE /\ phase' = "made"
                /\ err' = ""
                /\ prog_list' = p.prog_list
                /\ labels' = p.labels
    /\ UNCHANGED <<reps, qick_sweeps, added, expts, pc, regs, mem, body_runs, pt>>
    /\ UNCHANGED <<regvars, acqvars, libvars>>

\* the program is loaded and started on the tProc (load_program, start_readout)
StartProgram ==
    /\ phase = "made"
    /\ phase' = "running"
    /\ pc' = 1
    /\ pt' = [i \in 1..Len(qick_sweeps) |-> 0]
    /\ UNCHANGED <<err, reps, qick_sweeps, added, expts, prog_list, labels, regs, mem, body_runs>>
    /\ UNCHANGED <<regvars, acqvars, libvars>>

\* the tProc executes the instruction at pc
StepProgram ==
    /\ phase = "running"
    /\ LET i == prog_list[pc]
           r == <<i.page, i.addr>>
       IN  /\ phase' = IF i.op = "end" THEN "halted" ELSE "running"
           /\ pc' = CASE i.op = "end" -> pc
                      [] i.op = "loopnz" /\ regs[r] # 0 -> labels[i.label]
                      [] OTHER -> pc + 1
           /\ regs' = CASE i.op = "regwi" -> [regs EXCEPT ![r] = i.val]
                        [] i.op = "mathi" ->
                              [regs EXCEPT ![r] = regs[<<i.page, i.src>>] + i.val]
                        [] i.op = "loopnz" /\ regs[r] # 0 -> [regs EXCEPT ![r] = @ - 1]
                        [] OTHER -> regs
           /\ mem' = IF i.op = "memwi" THEN [mem EXCEPT ![i.val] = regs[r]] ELSE mem
           /\ body_runs' = IF i.op = "body" THEN body_runs + 1 ELSE body_runs
           /\ pt' = CASE i.swp # 0 /\ i.op = "regwi" -> [pt EXCEPT ![i.swp] = 0]
                      [] i.swp # 0 /\ i.op = "mathi" -> [pt EXCEPT ![i.swp] = @ + 1]
                      [] OTHER -> pt
    /\ UNCHANGED <<err, reps, qick_sweeps, added, expts, prog_list, labels>>
    /\ UNCHANGED <<regvars, acqvars, libvars>>

RunInit == NDInit /\ RegIdle /\ AcqIdle /\ LibIdle

RunNext ==
    \/ \E s \in RunSweeps : Len(qick_sweeps) < MaxRunSweeps /\ add_sweep(s)
    \/ make_program
    \/ (reps * expts <= MaxShots /\ StartProgram)
    \/ StepProgram

SpecRun == RunInit /\ [][RunNext]_vars

BuildNext ==
    \/ \E s \in BuildSweeps : Len(qick_sweeps) < MaxBuildSweeps /\ add_sweep(s)
    \/ make_program

SpecBuild == RunInit /\ [][BuildNext]_vars


-----------------------------------------------------------------------------
(* Observations on the sweep list and the running program *)

\* N_1 * ... * N_n of the registered sweeps
SweepProduct == Product([i \in 1..Len(qick_sweeps) |-> qick_sweeps[i].expts])

\* N_1 * ... * N_(i-1)
InnerProduct(i) == Product([j \in 1..(i - 1) |-> qick_sweeps[j].expts])

\* the labels make_program defines, in emission order (LOOP_rep first)
EmittedLabels ==
    LET n == Len(qick_sweeps) IN
    <<RepLabel>> \o [k \in 1..n |->
        LoopLabel(qick_sweeps[n + 1 - k], counter_regs(n)[n + 1 - k])]

LabelsDistinct ==
    \A i, j \in 1..Len(EmittedLabels) : i # j => EmittedLabels[i] # EmittedLabels[j]

\* address of the body in the emitted program
BodyAddr == 2 * Len(qick_sweeps) + 3

\* address of sweep k's reset instruction
ResetAddr(k) == 2 + 2 * (Len(qick_sweeps) - k) + 1


-----------------------------------------------------------------------------
(* Register allocation on a constructed program; the compiler is not involved *)

NDIdle ==
    /\ phase = "made"
    /\ err = ""
    /\ reps = 1
    /\ qick_sweeps = <<>>
    /\ added = <<>>
    /\ expts = 1
    /\ prog_list = <<>>
    /\ labels = [x \in {} |-> 0]
    /\ pc = 0
    /\ regs = [r \in RegFile |-> 0]
    /\ mem = [a \in {1} |-> 0]
    /\ body_runs = 0
    /\ pt = <<>>

RegInit == NDIdle /\ RegIdle /\ AcqIdle /\ LibIdle

RegNext ==
    \E g \in GenChs, nm \in CallNames :
        /\ g # "g1" => nside < MaxSideCalls
        /\ nm # NoName => nnamed < MaxNamedCalls
        /\ new_reg(g, nm)

SpecReg == RegInit /\ [][RegNext]_vars


-----------------------------------------------------------------------------
(* Acquisition on a constructed program and a synthetic data source *)

AcqInit ==
    /\ phase = "made"
    /\ err = ""
    /\ reps \in 1..MaxReps
    /\ qick_sweeps = <<>>
    /\ added = <<>>
    /\ expts \in 1..MaxAcqExpts
    /\ prog_list = <<>>
    /\ labels = [x \in {} |-> 0]
    /\ pc = 0
    /\ regs = [r \in RegFile |-> 0]
    /\ mem = [a \in {1} |-> 0]
    /\ body_runs = 0
    /\ pt = <<>>
    /\ RegIdle
    /\ LibIdle
    /\ acq_pc = "idle"
    /\ cfg_rounds \in {None} \cup {Some(n) : n \in 1..MaxRounds}
    /\ signal \in {"ramp", "const"}
    /\ threshold = None
    /\ rpe = 1
    /\ save_experiments = <<0>>
    /\ ii = 0
    /\ nrounds = 0
    /\ count = 0
    /\ d_buf = <<>>
    /\ stats = <<>>
    /\ written = <<>>
    /\ hw_sent = 0
    /\ hw_chunks = 0
    /\ di_buf = <<>>
    /\ dq_buf = <<>>
    /\ di_buf_p = <<>>
    /\ dq_buf_p = <<>>
    /\ avg_di = None
    /\ avg_dq = None
    /\ round_avgs = <<>>
    /\ acq_ret = None

AcqNext ==
    \/ \E thr \in ThresholdChoices, r \in 1..MaxRpe :
           \E save \in SaveChoices(r) : acquire(thr, r, save)
    \/ \E sizes \in ChunkSizes : Poll(sizes)
    \/ RoundEnd

SpecAcq == AcqInit /\ [][AcqNext]_vars

-----------------------------------------------------------------------------
(* Claims on the emitted program, checked under SpecRun *)

\* get_expt_pts()
get_expt_pts == [i \in 1..Len(qick_sweeps) |-> qick_sweeps[i].sweep_array]

\* C1: a program that has reached its end instruction has executed body exactly
\* reps * N_1 * ... * N_n times, and the total-run counter (register 13) and its
\* copy in memory address 1 equal that number.
C1_BodyRunsProduct ==
    phase = "halted" =>
        /\ body_runs = reps * SweepProduct
        /\ regs[<<0, rcount>>] = body_runs
        /\ mem[1] = body_runs

\* C2: whenever body is about to execute, sweep i (in registration order) is at
\* point index (e div (N_1 * ... * N_(i-1))) mod N_i, where e is the number of
\* bodies already executed in the current repetition.
C2_FirstSweepInnermost ==
    (phase = "running" /\ prog_list[pc].op = "body") =>
        \A i \in 1..Len(qick_sweeps) :
            pt[i] = ((body_runs % SweepProduct) \div InnerProduct(i)) % qick_sweeps[i].expts

\* C3: right after sweep k's reset instruction has executed, the register the
\* sweep is bound to holds the register value of the sweep's start.
C3_ResetToStart ==
    \A k \in 1..Len(qick_sweeps) :
        (phase = "running" /\ pc = ResetAddr(k) + 1) =>
            regs[<<qick_sweeps[k].reg.page, qick_sweeps[k].reg.addr>>]
                = val2reg(Rat(qick_sweeps[k].start, 1))

\* C4: after any sequence of add_sweep calls, expts is the product of the
\* point-counts of the sweeps added (1 when none was), and get_expt_pts() is the
\* list of the sweep arrays of the added sweeps, in the order of the calls.
C4_ExptsIsProduct ==
    /\ expts = Product([i \in 1..Len(added) |-> added[i].expts])
    /\ Len(get_expt_pts) = Len(added)
    /\ \A i \in 1..Len(added) :
           get_expt_pts[i] = added[i].sweep_array

\* C4 witness: three sweeps with different point-counts have been added.
C4_Witness ==
    /\ Len(added) = 3
    /\ added[1].expts = 2
    /\ added[2].expts = 3
    /\ added[3].expts = 2
    /\ expts = 12

-----------------------------------------------------------------------------
(* Claims on make_program's acceptance, checked under SpecBuild *)

\* C6: once make_program has returned or raised, it has raised OverflowError if
\* more than 7 sweeps were registered, and has succeeded if 1 to 7 were.
C6_AcceptsUpToSeven ==
    phase # "initialize" =>
        /\ Len(qick_sweeps) > 7 => (phase = "error" /\ err = "OverflowError")
        /\ Len(qick_sweeps) \in 1..7 => phase = "made"

-----------------------------------------------------------------------------
(* Claims on register allocation, checked under SpecReg *)

\* number of allocated addresses of a page
PageCount(allocated, page) == Cardinality({x \in allocated : x[1] = page})

\* C5: a new_reg call never returns a pair an earlier call returned, and a call on
\* a page that holds 12 allocated addresses raises an error and leaves the
\* allocated list and the register tables as they were.
C5_NoReuse ==
    [][ /\ ret'.kind = "ok" => <<ret'.page, ret'.addr>> \notin returned
        /\ PageCount(user_regs, ret'.page) = 12 =>
              /\ ret'.kind = "ValueError"
              /\ user_regs' = user_regs
              /\ user_reg_dict' = user_reg_dict ]_vars

\* C5 witness: two channels sharing page 1 hold registers, all 12 addresses of
\* the page are allocated, and a further call has failed.
C5_Witness ==
    /\ ret.kind = "ValueError"
    /\ ret.page = 1
    /\ DOMAIN user_reg_dict["g1"] # {}
    /\ DOMAIN user_reg_dict["g2"] # {}
    /\ PageCount(user_regs, 1) = 12

-----------------------------------------------------------------------------
(* Claims on acquisition, checked under SpecAcq *)

\* the sum of the floats x[1], ..., x[n]
RECURSIVE RatSum(_)
RatSum(x) == IF x = <<>> THEN Rat(0, 1) ELSE RatAdd(Head(x), RatSum(Tail(x)))

\* raw sample number j (counted from 0) of channel ch in round number round
SampleI(ch, round, j) == RawI(ch, round, j + 1)
SampleQ(ch, round, j) == RawQ(ch, round, j + 1)

\* the raw sample number that repetition r, experiment point e and saved
\* readout nn stand for
SampleIndex(r, e, nn) == (r * expts + e) * rpe + save_experiments[nn]

\* C7: with threshold = None, the averaged I and Q arrays of every completed
\* acquire_round call have shape (channels, len(save_experiments), expts), and
\* entry [ch][nn][e] is the sum over the repetitions r of raw sample
\* (r * expts + e) * readouts_per_experiment + save_experiments[nn], divided by
\* reps and by the readout length; constant samples V give V / length.
C7_RoundAverage ==
    threshold = None =>
        \A k \in 1..Len(round_avgs) :
            /\ DOMAIN round_avgs[k].i = RoChs
            /\ DOMAIN round_avgs[k].q = RoChs
            /\ \A ch \in RoChs :
                /\ DOMAIN round_avgs[k].i[ch] = 1..Len(save_experiments)
                /\ DOMAIN round_avgs[k].q[ch] = 1..Len(save_experiments)
                /\ \A nn \in 1..Len(save_experiments) :
                    /\ DOMAIN round_avgs[k].i[ch][nn] = 1..expts
                    /\ DOMAIN round_avgs[k].q[ch][nn] = 1..expts
                    /\ \A e \in 0..(expts - 1) :
                        /\ round_avgs[k].i[ch][nn][e + 1] =
                              Norm(Rat(SumSeq([r \in 1..reps |->
                                           SampleI(ch, k - 1, SampleIndex(r - 1, e, nn))]),
                                       reps * RoLength(ch)))
                        /\ round_avgs[k].q[ch][nn][e + 1] =
                              Norm(Rat(SumSeq([r \in 1..reps |->
                                           SampleQ(ch, k - 1, SampleIndex(r - 1, e, nn))]),
                                       reps * RoLength(ch)))
                        /\ signal = "const" =>
                              /\ round_avgs[k].i[ch][nn][e + 1] = Norm(Rat(7, RoLength(ch)))
                              /\ round_avgs[k].q[ch][nn][e + 1] = Norm(Rat(-7, RoLength(ch)))

\* C7 witness: a round over two repetitions with two readouts per experiment,
\* both saved, of samples that all differ, has been averaged.
C7_Witness ==
    /\ threshold = None
    /\ signal = "ramp"
    /\ reps = 2
    /\ rpe = 2
    /\ save_experiments = <<0, 1>>
    /\ Len(round_avgs) >= 1

\* C8: when acquire has returned, acquire_round has been called exactly rounds
\* times; with rounds > 1 the returned I and Q arrays are the element-wise sums of
\* the per-round arrays divided by rounds, with rounds absent or 1 they are the
\* arrays of the single acquire_round call.
C8_RoundMean ==
    acq_pc = "done" =>
        /\ nrounds = Rounds
        /\ Len(round_avgs) = Rounds
        /\ Rounds = 1 => acq_ret = round_avgs[1]
        /\ Rounds > 1 =>
              \A ch \in RoChs : \A nn \in 1..Len(save_experiments) : \A e \in 1..expts :
                  /\ acq_ret.i[ch][nn][e] =
                        RatDiv(RatSum([k \in 1..Rounds |-> round_avgs[k].i[ch][nn][e]]), Rounds)
                  /\ acq_ret.q[ch][nn][e] =
                        RatDiv(RatSum([k \in 1..Rounds |-> round_avgs[k].q[ch][nn][e]]), Rounds)

\* C8 witness: acquire has returned from three rounds whose averages differ.
C8_Witness ==
    /\ acq_pc = "done"
    /\ cfg_rounds = Some(3)
    /\ Len(round_avgs) = 3
    /\ round_avgs[1] # round_avgs[2]
    /\ round_avgs[2] # round_avgs[3]

\* C9: while acquire_round is in its polling loop or has just left it, the write
\* offset equals the number of samples received, there is one status record per
\* chunk received, and the buffer holds the samples received so far in arrival
\* order, each position below the offset written once and none above it written;
\* so at exit after exactly total_count samples every position is written once.
C9_PollingBuffer ==
    acq_pc = "poll" =>
        /\ count = hw_sent
        /\ stats = [j \in 1..hw_chunks |-> j]
        /\ \A j \in 1..TotalCount :
              IF j <= count
              THEN /\ written[j] = 1
                   /\ \A ch \in RoChs : /\ d_buf[ch][1][j] = SampleI(ch, ii, j - 1)
                                        /\ d_buf[ch][2][j] = SampleQ(ch, ii, j - 1)
              ELSE /\ written[j] = 0
                   /\ \A ch \in RoChs : d_buf[ch][1][j] = 0 /\ d_buf[ch][2][j] = 0

\* C9 witness: the loop has exited after exactly total_count samples that came
\* in at least two chunks, one of them of more than one sample.
C9_Witness ==
    /\ acq_pc = "poll"
    /\ count = TotalCount
    /\ hw_chunks >= 2
    /\ hw_chunks < count

\* C10: the persistent raw buffers have shape (channels, reps * rounds,
\* samples per repetition); once round i is stored, row reps * i + r holds the raw
\* samples of repetition r of round i, until and after acquire returns, and the
\* rows of the rounds not yet stored are untouched.
C10_PersistentRows ==
    acq_pc \in {"poll", "done"} =>
        \A ch \in RoChs :
            /\ Len(di_buf_p[ch]) = reps * Rounds
            /\ Len(dq_buf_p[ch]) = reps * Rounds
            /\ \A i \in 0..(Rounds - 1) : \A r \in 0..(reps - 1) :
                /\ Len(di_buf_p[ch][reps * i + r + 1]) = MsmtPerRep
                /\ Len(dq_buf_p[ch][reps * i + r + 1]) = MsmtPerRep
                /\ \A x \in 0..(MsmtPerRep - 1) :
                    IF i < Len(round_avgs)
                    THEN /\ di_buf_p[ch][reps * i + r + 1][x + 1] =
                                SampleI(ch, i, r * MsmtPerRep + x)
                         /\ dq_buf_p[ch][reps * i + r + 1][x + 1] =
                                SampleQ(ch, i, r * MsmtPerRep + x)
                    ELSE /\ di_buf_p[ch][reps * i + r + 1][x + 1] = 0
                         /\ dq_buf_p[ch][reps * i + r + 1][x + 1] = 0

\* C10 witness: acquire has returned from three rounds of two repetitions.
C10_Witness ==
    /\ acq_pc = "done"
    /\ cfg_rounds = Some(3)
    /\ reps = 2
    /\ signal = "ramp"

-----------------------------------------------------------------------------
(* get_single_shots called on its own: one raw sample per readout channel *)

ShotsInit == NDIdle /\ RegIdle /\ AcqIdle /\ LibIdle

\* self.get_single_shots(di, dq, threshold) with the default angle
CallGetSingleShots(di, dq, t) ==
    /\ fcall' = [f |-> "get_single_shots", args |-> [di |-> di, dq |-> dq, threshold |-> t]]
    /\ fout' = IF SingleShotsError # "" THEN Raise(SingleShotsError)
               ELSE Ok(get_single_shots(di, dq, t))
    /\ UNCHANGED <<ndvars, regvars, acqvars, cfgvars, ddvars, wfvars>>

ShotsNext ==
    \E di \in [RoChs -> [1..1 -> -1..MaxRawI]], q \in -MaxRawQ..MaxRawQ, t \in 1..MaxThreshold :
        fcall = NoFun /\ CallGetSingleShots(di, [ch \in RoChs |-> <<q>>], t)

SpecShots == ShotsInit /\ [][ShotsNext]_vars

\* C11: with the default angle 0, get_single_shots maps a sample to 1 exactly
\* when I / length is strictly greater than the threshold and to 0 otherwise,
\* whatever its Q value: a sample at the threshold maps to 0, a sample one unit
\* above it to 1.
C11_StrictThreshold ==
    (fcall.f = "get_single_shots" /\ fout.err = "") =>
        \A ch \in RoChs : \A k \in 1..Len(fcall.args.di[ch]) :
            LET i == fcall.args.di[ch][k]
                t == fcall.args.threshold
            IN  /\ fout.val[ch][k] \in {0, 1}
                /\ fout.val[ch][k] = 1 <=> i > t * RoLength(ch)
                /\ i = t * RoLength(ch) => fout.val[ch][k] = 0
                /\ i = (t + 1) * RoLength(ch) => fout.val[ch][k] = 1

\* C11 witness: one channel's sample is exactly at the threshold, another's one
\* unit above it, both with a Q value other than 0.
C11_Witness ==
    /\ fcall.f = "get_single_shots"
    /\ fout.err = ""
    /\ fcall.args.di[1][1] = fcall.args.threshold * RoLength(1)
    /\ fcall.args.di[2][1] = (fcall.args.threshold + 1) * RoLength(2)
    /\ fcall.args.dq[1][1] # 0
    /\ fcall.args.dq[2][1] # 0
    /\ fout.val[1][1] = 0
    /\ fout.val[2][1] = 1

-----------------------------------------------------------------------------
(* data/datadict.py: numpy index arithmetic *)

\* the product of shape[from], ..., shape[Len(shape)]
RECURSIVE TailProduct(_, _)
TailProduct(shape, from) ==
    IF from > Len(shape) THEN 1 ELSE shape[from] * TailProduct(shape, from + 1)

\* np.unravel_index(e, shape): the index along each axis (from 0) of the e-th
\* element (from 0) of a C-ordered array
Unravel(e, shape) ==
    [a \in 1..Len(shape) |-> (e \div TailProduct(shape, a + 1)) % shape[a]]

\* the lengths of the arrays of a sequence of arrays
Lens(arrays) == [k \in 1..Len(arrays) |-> Len(arrays[k])]

-----------------------------------------------------------------------------
(* flattenSweepDict: a dictionary is the sequence of its values in key order *)

\* the shape of the arrays np.meshgrid(x_1, ..., x_n) returns with its default
\* indexing "xy": (len(x_2), len(x_1), len(x_3), ..., len(x_n))
MeshShape(lens) ==
    IF Len(lens) < 2 THEN lens
    ELSE <<lens[2], lens[1]>> \o SubSeq(lens, 3, Len(lens))

\* the axis of those arrays along which the k-th of them varies
MeshAxis(k, n) ==
    IF n < 2 THEN k ELSE CASE k = 1 -> 2 [] k = 2 -> 1 [] OTHER -> k

\* map(np.ndarray.flatten, np.meshgrid(*py_dict.values())), one array per key
flattenSweepDict(sweeps) ==
    LET n     == Len(sweeps)
        shape == MeshShape(Lens(sweeps))
    IN  [k \in 1..n |-> [e \in 1..TailProduct(shape, 1) |->
            sweeps[k][Unravel(e - 1, shape)[MeshAxis(k, n)] + 1]]]

\* the sweep dictionaries: key k's values are distinct numbers starting at a
\* base that tells the keys apart
SweepValues(k, base, len) == [j \in 1..len |-> 100 * k + base + j]

SweepDicts ==
    UNION {{[k \in 1..n |-> SweepValues(k, b[k], l[k])] :
               b \in [1..n -> {0, 10}], l \in [1..n -> 1..MaxSweepLen]} :
           n \in 1..MaxFlattenKeys}

FlattenInit == NDIdle /\ RegIdle /\ AcqIdle /\ LibIdle

CallFlattenSweepDict(sweeps) ==
    /\ fcall' = [f |-> "flattenSweepDict", args |-> sweeps]
    /\ fout' = Ok(flattenSweepDict(sweeps))
    /\ UNCHANGED <<ndvars, regvars, acqvars, cfgvars, ddvars, wfvars>>

FlattenNext == \E sweeps \in SweepDicts : fcall = NoFun /\ CallFlattenSweepDict(sweeps)

SpecFlatten == FlattenInit /\ [][FlattenNext]_vars

\* C13: entry e (from 0) of the flattened array of key i is
\* values_i[(e div (L_1 * ... * L_(i-1))) mod L_i]: the first key varies fastest,
\* the last key slowest, for every number of keys.
C13_FirstKeyInnermost ==
    fcall.f = "flattenSweepDict" =>
        LET sweeps == fcall.args
            lens   == Lens(sweeps)
        IN  /\ Len(fout.val) = Len(sweeps)
            /\ \A i \in 1..Len(sweeps) :
                /\ Len(fout.val[i]) = Product(lens)
                /\ \A e \in 0..(Product(lens) - 1) :
                       fout.val[i][e + 1] =
                           sweeps[i][((e \div Product(SubSeq(lens, 1, i - 1))) % lens[i]) + 1]

-----------------------------------------------------------------------------
(* QickDataDict.__init__ *)

\* the names of the sweeps: the k-th key of inner_sweeps and of outer_sweeps
InnerKey(k) == CASE k = 1 -> "x1" [] k = 2 -> "x2" [] k = 3 -> "x3" [] OTHER -> "x4"
OuterKey(k) == CASE k = 1 -> "y1" [] k = 2 -> "y2" [] OTHER -> "y3"

\* the tick values of a declared sweep of len points
InnerTicks(k, len) == [j \in 1..len |-> 100 * k + j]
OuterTicks(k, len) == [j \in 1..len |-> 1000 * k + j]

\* ro_chs = [0, 1]
DataChs == <<0, 1>>

\* a variant of the axis list that keeps the sweeps in declaration order
AxesInOrder(outer_keys, inner_keys) ==
    <<"soft_reps">> \o outer_keys \o <<"reps">> \o inner_keys \o <<"msmts">>

\* ["soft_reps", *list(outer_sweeps.keys())[::-1], "reps",
\*  *list(inner_sweeps.keys())[::-1], "msmts"]
DataAxes(outer_keys, inner_keys) ==
    <<"soft_reps">> \o Reverse(outer_keys) \o <<"reps">> \o Reverse(inner_keys) \o <<"msmts">>

\* QickDataDict(ro_chs, inner_sweeps, outer_sweeps): a sweep dictionary is the
\* sequence of its [key, values] items; every field's column starts empty
QickDataDict(ro_chs, inner_sweeps, outer_sweeps) ==
    LET inner_keys == [k \in 1..Len(inner_sweeps) |-> inner_sweeps[k].key]
        outer_keys == [k \in 1..Len(outer_sweeps) |-> outer_sweeps[k].key]
    IN  [ro_chs        |-> ro_chs,
         inner_sweeps  |-> inner_sweeps,
         outer_sweeps  |-> outer_sweeps,
         val_msmts     |-> None,
         val_reps      |-> None,
         val_soft_reps |-> None,
         val_outer     |-> [k \in 1..Len(outer_sweeps) |-> outer_sweeps[k].values],
         val_inner     |-> [k \in 1..Len(inner_sweeps) |-> inner_sweeps[k].values],
         avg_axes      |-> [i \in 1..Len(ro_chs) |-> DataAxes(outer_keys, inner_keys)],
         buf_axes      |-> [i \in 1..Len(ro_chs) |-> DataAxes(outer_keys, inner_keys)],
         msmts         |-> <<>>,
         reps          |-> <<>>,
         soft_reps     |-> <<>>,
         inner         |-> [k \in 1..Len(inner_sweeps) |-> <<>>],
         outer         |-> [k \in 1..Len(outer_sweeps) |-> <<>>],
         avg_iq        |-> [i \in 1..Len(ro_chs) |-> <<>>],
         buf_iq        |-> [i \in 1..Len(ro_chs) |-> <<>>]]

-----------------------------------------------------------------------------
(* QickDataDict.add_data *)

\* np.tile(a, n), np.repeat(a, n) and np.arange(n) of one-dimensional arrays
Tile(a, n)   == [j \in 1..(Len(a) * n) |-> a[((j - 1) % Len(a)) + 1]]
Repeat(a, n) == [j \in 1..(Len(a) * n) |-> a[((j - 1) \div n) + 1]]
Arange(n)    == [j \in 1..n |-> j - 1]

\* m.transpose().flatten() of a two-dimensional array m[row][col]
TransposeFlatten(m) ==
    LET rows == Len(m)
        cols == Len(m[1])
    IN  [j \in 1..(rows * cols) |-> m[((j - 1) % rows) + 1][((j - 1) \div rows) + 1]]

\* m.flatten() of a two-dimensional array m[row][col]
Flatten2(m) ==
    LET cols == Len(m[1])
    IN  [j \in 1..(Len(m) * cols) |-> m[((j - 1) \div cols) + 1][((j - 1) % cols) + 1]]

\* i + 1j * q, element by element, of two-dimensional arrays
Complex(i, q) == [r \in 1..Len(i) |-> [c \in 1..Len(i[r]) |-> [re |-> i[r][c], im |-> q[r][c]]]]

\* np.zeros(n) in a complex column
ComplexZeros(n) == [j \in 1..n |-> [re |-> 0, im |-> 0]]

\* np.tile((avg_i[i] + 1j * avg_q[i]).transpose().flatten(), reps)
AvgColumn(avg_i, avg_q, nreps) == Tile(TransposeFlatten(Complex(avg_i, avg_q)), nreps)

\* add_data(avg_i, avg_q, buf_i, buf_q, inner_sweeps, soft_rep, **outer_sweeps)
\* on the container dd: avg_i, avg_q are indexed [ch][msmt][expt], buf_i, buf_q
\* are None or indexed [ch][rep][sample], inner_sweeps is None or the value
\* arrays in key order, outer_vals the value of every outer sweep in key order
add_data(dd, avg_i, avg_q, buf_i, buf_q, inner_sweeps, soft_rep, outer_vals) ==
    LET msmt_per_exp  == Len(avg_i[1])
        nreps         == IF buf_i = None THEN 1 ELSE Len(buf_i[1])
        inner         == IF inner_sweeps = None THEN dd.val_inner ELSE inner_sweeps
        flatten_inner == flattenSweepDict(inner)
        nexpts        == Len(flatten_inner[1])
        n             == msmt_per_exp * nexpts * nreps
    IN  [dd EXCEPT
            !.msmts         = @ \o Tile(Arange(msmt_per_exp), nexpts * nreps),
            !.val_msmts     = Some(Arange(msmt_per_exp)),
            !.avg_iq        = [i \in 1..Len(dd.ro_chs) |->
                                  @[i] \o AvgColumn(avg_i[i], avg_q[i], nreps)],
            !.buf_iq        = [i \in 1..Len(dd.ro_chs) |->
                                  @[i] \o (IF buf_i # None
                                           THEN Flatten2(Complex(buf_i[i], buf_q[i]))
                                           ELSE ComplexZeros(msmt_per_exp * nexpts))],
            !.reps          = @ \o Repeat(Arange(nreps), msmt_per_exp * nexpts),
            !.val_reps      = Some(Arange(nreps)),
            !.inner         = [k \in 1..Len(flatten_inner) |->
                                  @[k] \o Tile(Repeat(flatten_inner[k], msmt_per_exp), nreps)],
            !.outer         = [k \in 1..Len(outer_vals) |->
                                  @[k] \o Repeat(<<outer_vals[k]>>, n)],
            !.soft_reps     = @ \o Repeat(<<soft_rep>>, n),
            !.val_soft_reps = Some(Arange(soft_rep + 1))]

-----------------------------------------------------------------------------
(* Filling a QickDataDict block by block, in the order of its axes *)

\* the sweep dictionaries a container is declared with
InnerDecls ==
    UNION {{[k \in 1..n |-> [key |-> InnerKey(k), values |-> InnerTicks(k, l[k])]] :
               l \in [1..n -> 2..MaxAxisLen]} : n \in 1..MaxInnerKeys}
OuterDecls ==
    UNION {{[k \in 1..n |-> [key |-> OuterKey(k), values |-> OuterTicks(k, l[k])]] :
               l \in [1..n -> 2..MaxAxisLen]} : n \in 0..MaxOuterKeys}

\* the data of one run: msmts measurements per experiment, and raw buffers of
\* buf repetitions or no raw buffers
Expts == [msmts : 1..MaxMsmts, buf : {None} \cup {Some(r) : r \in 1..MaxBufReps}]

\* the number of records one add_data call appends
ExptReps(x) == IF x.buf = None THEN 1 ELSE x.buf[1]
BlockLen(dd, x) == x.msmts * Product(Lens(dd.val_inner)) * ExptReps(x)

\* the number one sample is told apart by: block nb, repetition r, experiment
\* e and measurement m, all counted from 0
DatumId(nb, r, e, m) == ((nb * 8 + r) * 32 + e) * 4 + m

\* the arrays of block nb: avg_i[ch][m][e], avg_q[ch][m][e], buf_i[ch][r][j]
\* and buf_q[ch][r][j] with the samples of one repetition ordered
\* (m0_exp1, m1_exp1, m0_exp2, ...)
BlockAvgI(dd, x, nb) ==
    [i \in 1..Len(dd.ro_chs) |-> [m \in 1..x.msmts |->
        [e \in 1..Product(Lens(dd.val_inner)) |-> DatumId(nb, 0, e - 1, m - 1)]]]
BlockAvgQ(dd, x, nb) ==
    [i \in 1..Len(dd.ro_chs) |-> [m \in 1..x.msmts |->
        [e \in 1..Product(Lens(dd.val_inner)) |-> dd.ro_chs[i]]]]
BlockBufI(dd, x, nb) ==
    IF x.buf = None THEN None
    ELSE [i \in 1..Len(dd.ro_chs) |-> [r \in 1..x.buf[1] |->
            [j \in 1..(x.msmts * Product(Lens(dd.val_inner))) |->
                DatumId(nb, r - 1, (j - 1) \div x.msmts, (j - 1) % x.msmts)]]]
BlockBufQ(dd, x, nb) ==
    IF x.buf = None THEN None
    ELSE [i \in 1..Len(dd.ro_chs) |-> [r \in 1..x.buf[1] |->
            [j \in 1..(x.msmts * Product(Lens(dd.val_inner))) |-> dd.ro_chs[i]]]]

\* the number of add_data calls so far
Blocks(dd, x) == Len(dd.msmts) \div BlockLen(dd, x)

\* block nb in the order of the axes: soft repeat slowest, then the outer sweeps
\* with the last one slowest; its soft repeat index and outer sweep values
BlockCoords(dd, nb) == Unravel(nb, <<MaxRecords + 1>> \o Reverse(Lens(dd.val_outer)))
BlockSoftRep(dd, nb) == BlockCoords(dd, nb)[1]
BlockOuter(dd, nb) ==
    [k \in 1..Len(dd.val_outer) |->
        dd.val_outer[k][BlockCoords(dd, nb)[Len(dd.val_outer) + 2 - k] + 1]]

DataInit ==
    /\ NDIdle /\ RegIdle /\ AcqIdle
    /\ fcall = NoFun /\ fout = Ok(None) /\ gen_chs = None /\ declared = <<>>
    /\ pulses = <<>>
    /\ expt \in Expts
    /\ \E inner \in InnerDecls, outer \in OuterDecls :
           qdd = QickDataDict(DataChs, inner, outer)
    /\ BlockLen(qdd, expt) <= MaxRecords

\* qdd.add_data(avg_i, avg_q, buf_i, buf_q, inner_sweeps, soft_rep, **outer)
AddData(avg_i, avg_q, buf_i, buf_q, inner_sweeps, soft_rep, outer_vals) ==
    /\ qdd' = add_data(qdd, avg_i, avg_q, buf_i, buf_q, inner_sweeps, soft_rep, outer_vals)
    /\ UNCHANGED <<ndvars, regvars, acqvars, fnvars, cfgvars, expt, wfvars>>

\* the next block, with the inner sweeps passed again or left to the declared ones
AddNextBlock ==
    /\ fcall = NoFun
    /\ Len(qdd.msmts) + BlockLen(qdd, expt) <= MaxRecords
    /\ \E nb \in {Blocks(qdd, expt)}, inner_sweeps \in {None, qdd.val_inner} :
           AddData(BlockAvgI(qdd, expt, nb), BlockAvgQ(qdd, expt, nb),
                   BlockBufI(qdd, expt, nb), BlockBufQ(qdd, expt, nb),
                   inner_sweeps, BlockSoftRep(qdd, nb), BlockOuter(qdd, nb))


\* C14: every readout channel's averaged field and raw-buffer field declare the
\* same axis list: soft_reps, the outer sweeps in reverse declaration order,
\* reps, the inner sweeps in reverse declaration order, msmts.
C14_AxisSchema ==
    LET no == Len(qdd.outer_sweeps)
        ni == Len(qdd.inner_sweeps)
    IN  \A i \in 1..Len(qdd.ro_chs) :
            LET axes == qdd.avg_axes[i]
            IN  /\ qdd.buf_axes[i] = axes
                /\ axes = qdd.avg_axes[1]
                /\ Len(axes) = no + ni + 3
                /\ axes[1] = "soft_reps"
                /\ \A k \in 1..no : axes[1 + k] = qdd.outer_sweeps[no + 1 - k].key
                /\ axes[no + 2] = "reps"
                /\ \A k \in 1..ni : axes[no + 2 + k] = qdd.inner_sweeps[ni + 1 - k].key
                /\ axes[no + ni + 3] = "msmts"

C14_Witness ==
    /\ qdd # None
    /\ Len(qdd.outer_sweeps) = 2
    /\ Len(qdd.inner_sweeps) >= 2
    /\ qdd.avg_axes[2][2] = "y2"
    /\ qdd.buf_axes[1][5] = "x2"
    /\ Len(qdd.msmts) > 0

-----------------------------------------------------------------------------
(* DataFromQDDH5._reshape_original_data: an n-dimensional array is the record
   of its shape and of its elements in C order *)

\* list.index(name)
AxisIndex(axes, name) == CHOOSE a \in 1..Len(axes) : axes[a] = name

\* datadict.meta_val(f"val_{ax}")
MetaVal(dd, ax) ==
    CASE ax = "msmts"     -> dd.val_msmts[1]
      [] ax = "reps"      -> dd.val_reps[1]
      [] ax = "soft_reps" -> dd.val_soft_reps[1]
      [] \E k \in 1..Len(dd.inner_sweeps) : dd.inner_sweeps[k].key = ax ->
             dd.val_inner[CHOOSE k \in 1..Len(dd.inner_sweeps) : dd.inner_sweeps[k].key = ax]
      [] OTHER ->
             dd.val_outer[CHOOSE k \in 1..Len(dd.outer_sweeps) : dd.outer_sweeps[k].key = ax]

\* data_shape: len(ax_val) for every axis of the field
DataShape(dd, axes) == [a \in 1..Len(axes) |-> Len(MetaVal(dd, axes[a]))]

\* the position in C order (from 0) of the element at index idx
RECURSIVE RavelFrom(_, _, _)
RavelFrom(idx, shape, a) ==
    IF a > Len(shape) THEN 0
    ELSE idx[a] * TailProduct(shape, a + 1) + RavelFrom(idx, shape, a + 1)
Ravel(idx, shape) == RavelFrom(idx, shape, 1)

\* arr[idx] of an n-dimensional array
At(arr, idx) == arr.flat[Ravel(idx, arr.shape) + 1]

\* np.array(values).reshape(*shape)
NdReshape(values, shape) ==
    IF Product(shape) = Len(values) THEN Ok([shape |-> shape, flat |-> values])
    ELSE Raise("ValueError")

\* _reshape_original_data(data) of a field with these axes and values
reshape_original_data(dd, axes, values) == NdReshape(values, DataShape(dd, axes))

\* every index of an array of this shape
Indices(shape) == {Unravel(p, shape) : p \in 0..(Product(shape) - 1)}

\* the container holds whole soft repeats: its columns fill the declared shape
Complete(dd) ==
    /\ Len(dd.msmts) > 0
    /\ Product(DataShape(dd, dd.avg_axes[1])) = Len(dd.msmts)

\* the experiment number (from 0) the hardware measures the inner sweep
\* coordinates idx at: the first inner sweep varies fastest
ExptNumber(dd, axes, idx) ==
    Ravel(Reverse([k \in 1..Len(dd.val_inner) |-> idx[AxisIndex(axes, dd.inner_sweeps[k].key)]]),
          Reverse(Lens(dd.val_inner)))

\* the number of the block added for the soft repeat and outer coordinates of idx
BlockNumber(dd, idx) ==
    Ravel(SubSeq(idx, 1, Len(dd.val_outer) + 1),
          <<MaxRecords + 1>> \o Reverse(Lens(dd.val_outer)))

\* every axis column, reshaped, holds that axis's tick values along its own axis
AxisColumnsAligned(dd) ==
    LET axes  == dd.avg_axes[1]
        shape == DataShape(dd, axes)
        col(c) == reshape_original_data(dd, axes, c).val
    IN  \A idx \in Indices(shape) :
            /\ At(col(dd.soft_reps), idx) = idx[AxisIndex(axes, "soft_reps")]
            /\ At(col(dd.reps), idx) = idx[AxisIndex(axes, "reps")]
            /\ At(col(dd.msmts), idx) = idx[AxisIndex(axes, "msmts")]
            /\ \A k \in 1..Len(dd.outer_sweeps) :
                   At(col(dd.outer[k]), idx) =
                       dd.val_outer[k][idx[AxisIndex(axes, dd.outer_sweeps[k].key)] + 1]
            /\ \A k \in 1..Len(dd.inner_sweeps) :
                   At(col(dd.inner[k]), idx) =
                       dd.val_inner[k][idx[AxisIndex(axes, dd.inner_sweeps[k].key)] + 1]

\* every datum, reshaped, sits at the coordinates it was measured at
DataAligned(dd, x) ==
    \A i \in 1..Len(dd.ro_chs) :
        LET axes  == dd.avg_axes[i]
            shape == DataShape(dd, axes)
            avg   == reshape_original_data(dd, axes, dd.avg_iq[i]).val
            buf   == reshape_original_data(dd, dd.buf_axes[i], dd.buf_iq[i]).val
        IN  \A idx \in Indices(shape) :
                LET nb == BlockNumber(dd, idx)
                    r  == idx[AxisIndex(axes, "reps")]
                    e  == ExptNumber(dd, axes, idx)
                    m  == idx[AxisIndex(axes, "msmts")]
                IN  /\ At(avg, idx) = [re |-> DatumId(nb, 0, e, m), im |-> dd.ro_chs[i]]
                    /\ At(buf, idx) = IF x.buf = None THEN [re |-> 0, im |-> 0]
                                      ELSE [re |-> DatumId(nb, r, e, m), im |-> dd.ro_chs[i]]

\* C12: once whole soft repeats were added in the order of the axes, every
\* column reshaped to the declared shape holds its axis's tick values along
\* its own axis only, and every datum sits at the coordinates it was measured
\* at, for any number of inner and outer sweeps.
C12_RoundTrip ==
    Complete(qdd) => AxisColumnsAligned(qdd) /\ DataAligned(qdd, expt)

-----------------------------------------------------------------------------
(* DataFromQDDH5 *)

\* list.pop(i) and list.insert(i, v), positions from 1
Remove(l, i)    == SubSeq(l, 1, i - 1) \o SubSeq(l, i + 1, Len(l))
Insert(l, i, v) == SubSeq(l, 1, i - 1) \o <<v>> \o SubSeq(l, i, Len(l))

\* arr.transpose(order): axis a of the result is axis order[a] of arr
Transpose(arr, order) ==
    LET n     == Len(arr.shape)
        shape == [a \in 1..n |-> arr.shape[order[a]]]
    IN  [shape |-> shape,
         flat  |-> [p \in 1..Len(arr.flat) |->
                       LET idx == Unravel(p - 1, shape)
                       IN  At(arr, [b \in 1..n |-> idx[CHOOSE a \in 1..n : order[a] = b]])]]

\* a variant of moveaxis that leaves the array as it is
KeepAxis(arr, source, destination) == arr

\* np.moveaxis(arr, source, destination), axes from 1
MoveAxis(arr, source, destination) ==
    Transpose(arr, Insert(Remove([a \in 1..Len(arr.shape) |-> a], source), destination, source))

\* v.reshape(-1, *v.shape[2:])
MergeLeading(v) ==
    [shape |-> <<v.shape[1] * v.shape[2]>> \o SubSeq(v.shape, 3, Len(v.shape)),
     flat  |-> v.flat]

\* the sum of a sequence of integers given as a function of the position
RECURSIVE SumTo(_, _)
SumTo(f, n) == IF n = 0 THEN 0 ELSE f[n] + SumTo(f, n - 1)

\* np.average(v, axis=0) of a complex array: exact fractions
AverageAxis0(v) ==
    LET n    == v.shape[1]
        rest == TailProduct(v.shape, 2)
    IN  [shape |-> Tail(v.shape),
         flat  |-> [q \in 1..rest |->
                       [re |-> Norm(Rat(SumTo([j \in 1..n |-> v.flat[(j - 1) * rest + q].re], n), n)),
                        im |-> Norm(Rat(SumTo([j \in 1..n |-> v.flat[(j - 1) * rest + q].im], n), n))]]]

\* v[0]
First(v) ==
    [shape |-> Tail(v.shape), flat |-> SubSeq(v.flat, 1, TailProduct(v.shape, 2))]

\* DataFromQDDH5(ddh5_path, merge_reps) of the file the container dd was saved
\* to: the object's attributes, or the error of the reshape
DataFromQDDH5(dd, merge_reps) ==
    LET nreps      == dd.val_reps[1][Len(dd.val_reps[1])] + 1
        soft       == dd.val_soft_reps[1][Len(dd.val_soft_reps[1])] + 1
        axes_names == dd.avg_axes[1]
        chs        == 1..Len(dd.ro_chs)
        avg        == [i \in chs |-> reshape_original_data(dd, dd.avg_axes[i], dd.avg_iq[i])]
        buf        == [i \in chs |-> reshape_original_data(dd, dd.buf_axes[i], dd.buf_iq[i])]
        rep_idx    == AxisIndex(axes_names, "reps")
    IN  IF \E i \in chs : avg[i].err # "" \/ buf[i].err # "" THEN Raise("ValueError")
        ELSE IF merge_reps
        THEN Ok([reps       |-> nreps,
                 soft_reps  |-> soft,
                 total_reps |-> nreps * soft,
                 avg_iq     |-> [i \in chs |->
                                    AverageAxis0(MergeLeading(MoveAxis(avg[i].val, rep_idx, 2)))],
                 buf_iq     |-> [i \in chs |-> MergeLeading(MoveAxis(buf[i].val, rep_idx, 2))],
                 datashape  |-> MergeLeading(MoveAxis(buf[Len(dd.ro_chs)].val, rep_idx, 2)).shape,
                 axes_names |-> [Remove(axes_names, rep_idx) EXCEPT ![1] = "reps"],
                 axes_reps  |-> Arange(nreps * soft)])
        ELSE Ok([reps       |-> nreps,
                 soft_reps  |-> soft,
                 total_reps |-> nreps * soft,
                 avg_iq     |-> [i \in chs |-> First(MoveAxis(avg[i].val, rep_idx, 1))],
                 buf_iq     |-> [i \in chs |-> buf[i].val],
                 datashape  |-> buf[Len(dd.ro_chs)].val.shape,
                 axes_names |-> axes_names,
                 axes_reps  |-> MetaVal(dd, "reps")])

\* the container is saved and read back
Load(merge_reps) ==
    /\ fcall = NoFun
    /\ Len(qdd.msmts) > 0
    /\ fcall' = [f |-> "DataFromQDDH5", args |-> Some(merge_reps)]
    /\ fout' = DataFromQDDH5(qdd, merge_reps)
    /\ UNCHANGED <<ndvars, regvars, acqvars, cfgvars, ddvars, wfvars>>

DataNext ==
    \/ AddNextBlock
    \/ \E merge_reps \in BOOLEAN : Load(merge_reps)

SpecData == DataInit /\ [][DataNext]_vars

\* C20: with merge_reps the reader's raw buffers have one leading axis of
\* length reps * soft_reps whose index s * reps + r holds soft repeat s,
\* repeat r; the averaged data is the mean over that axis; the axis names are
\* 'reps' followed by the original axes without 'soft_reps' and 'reps'.
C20_MergeReps ==
    (fcall.f = "DataFromQDDH5" /\ fcall.args = Some(TRUE) /\ fout.err = "") =>
        LET obj   == fout.val
            axes  == qdd.avg_axes[1]
            no    == Len(qdd.outer_sweeps)
            shape == DataShape(qdd, axes)
            rest  == SubSeq(shape, 2, no + 1) \o SubSeq(shape, no + 3, Len(shape))
            orig(i, s, r, c) ==
                At(reshape_original_data(qdd, qdd.buf_axes[i], qdd.buf_iq[i]).val,
                   <<s>> \o SubSeq(c, 1, no) \o <<r>> \o SubSeq(c, no + 1, Len(c)))
            origavg(i, s, r, c) ==
                At(reshape_original_data(qdd, qdd.avg_axes[i], qdd.avg_iq[i]).val,
                   <<s>> \o SubSeq(c, 1, no) \o <<r>> \o SubSeq(c, no + 1, Len(c)))
            pairs == [j \in 1..obj.total_reps |-> <<(j - 1) \div obj.reps, (j - 1) % obj.reps>>]
        IN  /\ obj.total_reps = obj.reps * obj.soft_reps
            /\ obj.reps = shape[no + 2] /\ obj.soft_reps = shape[1]
            /\ obj.axes_names = <<"reps">> \o SubSeq(axes, 2, no + 1) \o SubSeq(axes, no + 3, Len(axes))
            /\ \A a \in 1..Len(obj.axes_names) : obj.axes_names[a] # "soft_reps"
            /\ obj.axes_reps = Arange(obj.total_reps)
            /\ obj.datashape = <<obj.total_reps>> \o rest
            /\ \A i \in 1..Len(qdd.ro_chs) :
                /\ obj.buf_iq[i].shape = <<obj.total_reps>> \o rest
                /\ obj.avg_iq[i].shape = rest
                /\ \A c \in Indices(rest) :
                    /\ \A s \in 0..(obj.soft_reps - 1), r \in 0..(obj.reps - 1) :
                           At(obj.buf_iq[i], <<s * obj.reps + r>> \o c) = orig(i, s, r, c)
                    /\ At(obj.avg_iq[i], c) =
                           [re |-> Norm(Rat(SumTo([j \in 1..obj.total_reps |->
                                        origavg(i, pairs[j][1], pairs[j][2], c).re], obj.total_reps),
                                        obj.total_reps)),
                            im |-> Norm(Rat(SumTo([j \in 1..obj.total_reps |->
                                        origavg(i, pairs[j][1], pairs[j][2], c).im], obj.total_reps),
                                        obj.total_reps))]

C20_Witness ==
    /\ fcall.f = "DataFromQDDH5" /\ fcall.args = Some(TRUE) /\ fout.err = ""
    /\ fout.val.reps = 2 /\ fout.val.soft_reps = 2
    /\ Len(qdd.outer_sweeps) >= 1 /\ Len(qdd.val_outer[1]) = 2
    /\ fout.val.axes_names[2] = "y1"
    /\ fout.val.buf_iq[1].shape[1] = 4

-----------------------------------------------------------------------------
(* new_reg with a name that is taken *)

\* every address of the page is allocated
PageFull(allocated, page) == \A a \in 1..MaxUserAddr : <<page, a>> \in allocated

\* C15 as stated: a new_reg call whose caller-supplied name is already in the
\* channel's register table fails with a KeyError and leaves the table as it was.
C15_KeyErrorAlways ==
    [][(nnamed' # nnamed /\ ret'.name \in DOMAIN user_reg_dict[ret'.gen_ch]) =>
           /\ ret'.kind = "KeyError"
           /\ user_reg_dict' = user_reg_dict]_vars

\* C15: a new_reg call whose caller-supplied name is already in the channel's
\* register table fails, with a ValueError when the channel's page is full and
\* with a KeyError otherwise, and leaves the table as it was.
C15_NameTaken ==
    [][(nnamed' # nnamed /\ ret'.name \in DOMAIN user_reg_dict[ret'.gen_ch]) =>
           /\ ret'.kind = IF PageFull(user_regs, ret'.page) THEN "ValueError" ELSE "KeyError"
           /\ user_reg_dict' = user_reg_dict]_vars

C15_Witness ==
    /\ ret.kind = "KeyError"
    /\ ret.name = "reg_2"
    /\ "reg_2" \in DOMAIN user_reg_dict[ret.gen_ch]
    /\ user_reg_dict[ret.gen_ch]["reg_2"] # <<ret.page, ret.addr>>

-----------------------------------------------------------------------------
(* QickSweep.__init__ called with any point-count *)

\* the numbers start and stop are: Python int or float ("py"), or NumPy
\* scalars ("np")
NumberKinds == {"py", "np"}

\* a variant of the division in which NumPy scalars raise as Python numbers do
TrueDivErrorAny(kind, divisor) == IF divisor = 0 THEN "ZeroDivisionError" ELSE ""

\* the exception of x / divisor, "" when it raises none: Python numbers raise
\* ZeroDivisionError; NumPy scalars give inf or nan and a RuntimeWarning
TrueDivError(kind, divisor) ==
    IF divisor = 0 /\ kind = "py" THEN "ZeroDivisionError" ELSE ""

\* the smallest 32-bit integer
IntMin == -2147483647 - 1

\* QickSweep(prog, reg, start, stop, expts): the outcomes of the constructor.
\* With NumPy scalars and expts = 1 the step is inf (nan when stop = start);
\* np.int32 of it raises or gives a value the cast leaves unspecified
QickSweepOutcomes(kind, reg, start, stop, n) ==
    IF TrueDivError(kind, n - 1) # "" THEN {Raise(TrueDivError(kind, n - 1))}
    ELSE IF n - 1 = 0
    THEN {Raise(IF stop = start THEN "ValueError" ELSE "OverflowError")} \cup
         {Ok([reg |-> reg, start |-> start, stop |-> stop, expts |-> n,
              reg_step |-> g, init_val |-> start,
              sweep_array |-> <<Fl(Rat(start, 1))>>]) : g \in {IntMin, 0}}
    ELSE {Ok(QickSweep(reg, start, stop, n))}

SweepInit == NDIdle /\ RegIdle /\ AcqIdle /\ LibIdle

CallQickSweep(kind, reg, start, stop, n) ==
    /\ fcall' = [f |-> "QickSweep",
                 args |-> [kind |-> kind, reg |-> reg, start |-> start, stop |-> stop,
                           expts |-> n]]
    /\ fout' \in QickSweepOutcomes(kind, reg, start, stop, n)
    /\ UNCHANGED <<ndvars, regvars, acqvars, cfgvars, ddvars, wfvars>>

SweepNext ==
    \E kind \in NumberKinds, start \in -MaxStart..MaxStart, stop \in -MaxStart..MaxStart,
       n \in 1..MaxPoints :
        fcall = NoFun /\ CallQickSweep(kind, QickRegister(1, 1, "reg_1", Some(start)), start, stop, n)

SpecSweep == SweepInit /\ [][SweepNext]_vars

\* C16 as stated: constructing a QickSweep with point-count 1 fails with a
\* division-by-zero error, so no sweep object with point-count 1 exists.
C16_DivisionByZero ==
    (fcall.f = "QickSweep" /\ fcall.args.expts = 1) => fout = Raise("ZeroDivisionError")

\* C16: with Python numbers, constructing a QickSweep with point-count 1 fails
\* with ZeroDivisionError and no sweep object exists; with NumPy scalars the
\* division raises nothing.
C16_PythonDivisionByZero ==
    (fcall.f = "QickSweep" /\ fcall.args.expts = 1) =>
        /\ fcall.args.kind = "py" => fout = Raise("ZeroDivisionError")
        /\ fcall.args.kind = "np" => fout.err # "ZeroDivisionError"

C16_Witness ==
    /\ fcall.f = "QickSweep"
    /\ fcall.args.expts = 1
    /\ fcall.args.kind = "py"
    /\ fcall.args.stop > fcall.args.start
    /\ fout.err = "ZeroDivisionError"

\* the largest error of a difference of two neighbours: a few units in the
\* last place of the largest of the points
DiffTolerance(start, stop) == Rat((Abs(start) + Abs(stop)) * 8, Pow2(FloatBits))

\* C17 as stated: for N >= 2 points sweep_array has length N, starts at start,
\* ends at stop, is non-decreasing when stop >= start, and all its consecutive
\* differences equal (stop - start) / (N - 1).
C17_EqualDifferences ==
    (fcall.f = "QickSweep" /\ fcall.args.expts >= 2 /\ fout.err = "") =>
        LET a   == fcall.args
            arr == fout.val.sweep_array
        IN  /\ Len(arr) = a.expts
            /\ arr[1] = Rat(a.start, 1)
            /\ arr[a.expts] = Rat(a.stop, 1)
            /\ \A k \in 1..(a.expts - 1) :
                /\ RatSub(arr[k + 1], arr[k]) = Norm(Rat(a.stop - a.start, a.expts - 1))
                /\ a.stop >= a.start => RatLeq(arr[k], arr[k + 1])

\* C17: for N >= 2 points sweep_array has length N, starts at start, ends at
\* stop, is non-decreasing when stop >= start, and its consecutive differences
\* equal (stop - start) / (N - 1) within floating-point tolerance.
C17_LinearlySpaced ==
    (fcall.f = "QickSweep" /\ fcall.args.expts >= 2 /\ fout.err = "") =>
        LET a   == fcall.args
            arr == fout.val.sweep_array
        IN  /\ Len(arr) = a.expts
            /\ arr[1] = Rat(a.start, 1)
            /\ arr[a.expts] = Rat(a.stop, 1)
            /\ \A k \in 1..(a.expts - 1) :
                /\ RatLeq(RatAbs(RatSub(RatSub(arr[k + 1], arr[k]),
                                        Rat(a.stop - a.start, a.expts - 1))),
                          DiffTolerance(a.start, a.stop))
                /\ a.stop >= a.start => RatLeq(arr[k], arr[k + 1])

C17_Witness ==
    /\ fcall.f = "QickSweep" /\ fout.err = ""
    /\ fcall.args.expts = 4
    /\ fcall.args.start = 0 /\ fcall.args.stop = 1
    /\ fout.val.sweep_array[1] = Rat(0, 1)
    /\ fout.val.sweep_array[4] = Rat(1, 1)
    /\ RatSub(fout.val.sweep_array[4], fout.val.sweep_array[3]) # fout.val.sweep_array[2]

-----------------------------------------------------------------------------
(* APAveragerProgram.__init__ and declare_all_gens: cfg["gen_chs"] is the
   sequence of its items [name, kws], kws a dictionary from keys to values *)

\* the name of the i-th entry of cfg["gen_chs"]
GenName(i) == CASE i = 1 -> "g1" [] i = 2 -> "g2" [] i = 3 -> "g3" [] OTHER -> "g4"

\* the entries a configuration is made of: a single channel, and an I/Q pair
\* with both, one or none of the keys skew_phase and IQ_scale
EntryKinds == {"single", "iq", "iq_skew_only", "iq_plain"}

GenEntry(i, kind) ==
    [name |-> GenName(i),
     kws  |-> CASE kind = "single" -> ("ch" :> 2 * i) @@ ("nqz" :> 1)
                [] kind = "iq" ->
                       ("ch_I" :> 2 * i) @@ ("ch_Q" :> 2 * i + 1) @@ ("nqz" :> 1) @@
                       ("skew_phase" :> 90) @@ ("IQ_scale" :> 1)
                [] kind = "iq_skew_only" ->
                       ("ch_I" :> 2 * i) @@ ("ch_Q" :> 2 * i + 1) @@ ("nqz" :> 1) @@
                       ("skew_phase" :> 90)
                [] OTHER ->
                       ("ch_I" :> 2 * i) @@ ("ch_Q" :> 2 * i + 1) @@ ("nqz" :> 1)]

Cfgs ==
    UNION {{[i \in 1..n |-> GenEntry(i, kinds[i])] : kinds \in [1..n -> EntryKinds]} :
           n \in 1..MaxGens}

\* kws.pop(key) for the keys of a set that are all present
Drop(kws, keys) == [k \in DOMAIN kws \ keys |-> kws[k]]

\* the keyword arguments QickProgram.declare_gen accepts besides ch
DeclareGenKeys == {"nqz", "mixer_freq", "mux_freqs", "mux_gains", "ro_ch"}

\* self.declare_gen(ch, **kws) with ch positional (Some) or not (None): the
\* exception Python raises for the call, "" when it raises none
DeclareGenError(ch, kws) ==
    IF ch = None /\ "ch" \notin DOMAIN kws THEN "TypeError"        \* missing argument
    ELSE IF ch # None /\ "ch" \in DOMAIN kws THEN "TypeError"      \* multiple values
    ELSE IF ~(DOMAIN kws \subseteq DeclareGenKeys \cup {"ch"}) THEN "TypeError"
    ELSE ""

\* the declaration the call makes
DeclareGen(ch, kws) ==
    IF ch = None THEN [ch |-> kws["ch"], kws |-> Drop(kws, {"ch"})]
    ELSE [ch |-> ch[1], kws |-> kws]

\* the program under construction: the configuration it shares with its
\* caller, the declarations made, the register tables, and the exception
NewProgram(cfg) ==
    [cfg |-> cfg, gens |-> <<>>, user_reg_dict |-> [x \in {} |-> <<>>], err |-> ""]

SetKws(p, i, kws) == [p EXCEPT !.cfg[i].kws = kws]
Fail(p, e) == [p EXCEPT !.err = e]

\* the two declarations of an I/Q entry, after the pops
DeclareIQ(p, i, ch_i, ch_q) ==
    LET kws == p.cfg[i].kws IN
    IF DeclareGenError(Some(ch_i), kws) # "" THEN Fail(p, DeclareGenError(Some(ch_i), kws))
    ELSE [p EXCEPT !.gens = @ \o <<DeclareGen(Some(ch_i), kws), DeclareGen(Some(ch_q), kws)>>]

\* for arg in ["skew_phase", "IQ_scale"]: try: kws.pop(arg) except
\* AttributeError: pass -- a missing key raises KeyError, which is not caught
RECURSIVE PopArgs(_, _, _)
PopArgs(p, i, args) ==
    IF args = <<>> THEN p
    ELSE IF Head(args) \notin DOMAIN p.cfg[i].kws THEN Fail(p, "KeyError")
    ELSE PopArgs(SetKws(p, i, Drop(p.cfg[i].kws, {Head(args)})), i, Tail(args))

\* one pass of the loop of declare_all_gens, for the i-th item
DeclareEntry(p, i) ==
    LET kws == p.cfg[i].kws IN
    IF "ch_I" \in DOMAIN kws /\ "ch_Q" \in DOMAIN kws
    THEN LET p1 == SetKws(p, i, Drop(kws, {"ch_I", "ch_Q"}))
             p2 == PopArgs(p1, i, <<"skew_phase", "IQ_scale">>)
             p3 == IF p2.err # "" THEN p2 ELSE DeclareIQ(p2, i, kws["ch_I"], kws["ch_Q"])
         IN  IF p3.err # "" THEN p3
             ELSE [p3 EXCEPT !.user_reg_dict = (p.cfg[i].name :> <<>>) @@ @]
    ELSE IF DeclareGenError(None, kws) # "" THEN Fail(p, DeclareGenError(None, kws))
    ELSE [p EXCEPT !.gens = Append(@, DeclareGen(None, kws)),
                   !.user_reg_dict = (p.cfg[i].name :> <<>>) @@ @]

\* declare_all_gens: the loop stops at the first exception
RECURSIVE declare_all_gens(_, _)
declare_all_gens(p, i) ==
    IF i > Len(p.cfg) \/ p.err # "" THEN p
    ELSE declare_all_gens(DeclareEntry(p, i), i + 1)

CfgInit ==
    /\ NDIdle /\ RegIdle /\ AcqIdle
    /\ fcall = NoFun /\ fout = Ok(None) /\ qdd = None /\ expt = None
    /\ pulses = <<>>
    /\ gen_chs \in Cfgs
    /\ declared = <<>>

\* APAveragerProgram(soccfg, cfg): the configuration is the caller's object,
\* so what the constructor does to it stays done
Construct ==
    /\ Len(declared) < MaxPrograms
    /\ \E p \in {declare_all_gens(NewProgram(gen_chs), 1)} :
        /\ fcall' = [f |-> "APAveragerProgram", args |-> Some(gen_chs)]
        /\ fout' = IF p.err # "" THEN Raise(p.err) ELSE Ok(p.user_reg_dict)
        /\ gen_chs' = p.cfg
        /\ declared' = Append(declared, p.gens)
    /\ UNCHANGED <<ndvars, regvars, acqvars, ddvars, wfvars>>

CfgNext == Construct

SpecCfg == CfgInit /\ [][CfgNext]_vars

\* C18: constructing a program leaves cfg["gen_chs"] as it was, every entry
\* with the same keys and values, and a second program constructed from the
\* same cfg declares the same channels as the first.
C18_CfgReadOnly ==
    /\ fcall.f = "APAveragerProgram" => gen_chs = fcall.args[1]
    /\ \A k \in 2..Len(declared) : declared[k] = declared[1]

\* the number of declarations of an entry: two for one that names both ch_I
\* and ch_Q, one for every other
DeclarationsOf(kws) == IF "ch_I" \in DOMAIN kws /\ "ch_Q" \in DOMAIN kws THEN 2 ELSE 1

\* C19: declare_all_gens makes two declarations (ch_I, ch_Q) for every entry
\* that names both and one for every other entry, with or without skew_phase
\* and IQ_scale, and afterwards every name has an empty register table.
C19_SplitIQ ==
    (fcall.f = "APAveragerProgram" /\ Len(declared) = 1) =>
        LET cfg == fcall.args[1] IN
        /\ fout.err = ""
        /\ Len(declared[1]) = SumSeq([i \in 1..Len(cfg) |-> DeclarationsOf(cfg[i].kws)])
        /\ \A i \in 1..Len(cfg) :
               \E j \in 1..Len(declared[1]) :
                   IF DeclarationsOf(cfg[i].kws) = 2
                   THEN /\ declared[1][j].ch = cfg[i].kws["ch_I"]
                        /\ declared[1][j + 1].ch = cfg[i].kws["ch_Q"]
                   ELSE declared[1][j].ch = cfg[i].kws["ch"]
        /\ DOMAIN fout.val = {cfg[i].name : i \in 1..Len(cfg)}
        /\ \A g \in DOMAIN fout.val : fout.val[g] = <<>>

-----------------------------------------------------------------------------
(* get_single_shots on programs with any number of readout channels *)

\* angle = [0, 0]; threshold = [threshold, threshold]: both lists have two entries
DefaultListLen == 2

\* the exception of the list comprehension over enumerate(self.ro_chs), "" when
\* it raises none: angle[i] and threshold[i] exist for i < 2 only
ShotsErrorFor(nro) == IF nro > DefaultListLen THEN "IndexError" ELSE ""

\* the array get_single_shots returns for the readout channels 1..nro
ShotsFor(nro, di, dq, t) ==
    [ch \in 1..nro |-> [k \in 1..Len(di[ch]) |->
        heaviside(Rat((di[ch][k] * Cos(0) - dq[ch][k] * Sin(0)) - t * RoLength(ch),
                      RoLength(ch)), 0)]]

ChsInit == NDIdle /\ RegIdle /\ AcqIdle /\ LibIdle

\* prog.get_single_shots(di, dq, threshold) on a program with nro readouts
CallShotsOn(nro, di, dq, t) ==
    /\ fcall' = [f |-> "get_single_shots",
                 args |-> [ro_chs |-> nro, di |-> di, dq |-> dq, threshold |-> t]]
    /\ fout' = IF ShotsErrorFor(nro) # "" THEN Raise(ShotsErrorFor(nro))
               ELSE Ok(ShotsFor(nro, di, dq, t))
    /\ UNCHANGED <<ndvars, regvars, acqvars, cfgvars, ddvars, wfvars>>

ChsNext ==
    \E nro \in 1..MaxShotChs, t \in 1..MaxThreshold :
        \E di \in [1..nro -> [1..1 -> -1..MaxRawI]] :
            fcall = NoFun /\ CallShotsOn(nro, di, [ch \in 1..nro |-> <<0>>], t)

SpecChs == ChsInit /\ [][ChsNext]_vars

\* C25: given a scalar threshold, get_single_shots returns one binary array
\* per readout channel, each made with that threshold, for any number of
\* readout channels.
C25_EveryChannel ==
    fcall.f = "get_single_shots" =>
        /\ fout.err = ""
        /\ DOMAIN fout.val = 1..fcall.args.ro_chs
        /\ \A ch \in 1..fcall.args.ro_chs : \A k \in 1..Len(fcall.args.di[ch]) :
               /\ fout.val[ch][k] \in {0, 1}
               /\ fout.val[ch][k] = 1 <=>
                      fcall.args.di[ch][k] > fcall.args.threshold * RoLength(ch)

-----------------------------------------------------------------------------
(* The loop labels of the emitted program *)

\* address of sweep k's loop entry: the instruction after its reset and its
\* counter set-up
LoopEntry(k) == ResetAddr(k) + 2

\* address of the repetition loop's entry: the instruction after the two regwi
RepEntry == 3

\* C26: for every list of sweeps make_program accepts, the labels it emits
\* (LOOP_rep and one per sweep) are pairwise distinct, and each loop's label is
\* bound to that loop's own entry, also when swept registers share a name.
C26_OwnLoopEntry ==
    phase = "made" =>
        /\ LabelsDistinct
        /\ labels[RepLabel] = RepEntry
        /\ \A k \in 1..Len(qick_sweeps) :
               labels[LoopLabel(qick_sweeps[k], counter_regs(Len(qick_sweeps))[k])]
                   = LoopEntry(k)

-----------------------------------------------------------------------------
(* new_reg calls that fail *)

\* C27: a new_reg call that fails, with a ValueError or a KeyError, leaves the
\* set of allocated (page, address) pairs and the register tables as they were.
C27_FailureKeepsState ==
    [][ret'.kind \in {"ValueError", "KeyError"} =>
           /\ user_regs' = user_regs
           /\ user_reg_dict' = user_reg_dict]_vars

-----------------------------------------------------------------------------
(* make_program on a program that registers no sweep *)

\* C28: make_program succeeds when initialize() registers no sweep; the program
\* is the repetition loop around body, and it executes body reps times with
\* expts = 1.
C28_NoSweep ==
    (qick_sweeps = <<>> /\ phase # "initialize") =>
        /\ err = ""
        /\ expts = 1
        /\ Len(prog_list) = 7
        /\ phase = "halted" => body_runs = reps

-----------------------------------------------------------------------------
(* add_data called with soft_rep and outer sweep values in any order *)

MaxSoftRep == 2
MaxAnyBlocks == 3

\* the outer sweep values a caller can pass: one declared tick per outer sweep
OuterChoices(dd) ==
    {[k \in 1..Len(dd.val_outer) |-> dd.val_outer[k][idx[k]]] :
        idx \in {f \in [1..Len(dd.val_outer) -> 1..MaxAxisLen] :
                    \A k \in 1..Len(dd.val_outer) : f[k] <= Len(dd.val_outer[k])}}

\* one more block, with any soft repeat index and any outer sweep values
AddAnyBlock ==
    /\ Blocks(qdd, expt) < MaxAnyBlocks
    /\ Len(qdd.msmts) + BlockLen(qdd, expt) <= MaxRecords
    /\ \E nb \in {Blocks(qdd, expt)}, soft_rep \in 0..MaxSoftRep,
          outer_vals \in OuterChoices(qdd) :
           AddData(BlockAvgI(qdd, expt, nb), BlockAvgQ(qdd, expt, nb),
                   BlockBufI(qdd, expt, nb), BlockBufQ(qdd, expt, nb),
                   None, soft_rep, outer_vals)

AnyOrderNext == AddAnyBlock

SpecAnyOrder == DataInit /\ [][AnyOrderNext]_vars

\* the largest soft repeat index of the records appended so far
RECURSIVE MaxOf(_)
MaxOf(s) == IF Len(s) = 1 THEN s[1]
            ELSE IF s[1] >= MaxOf(Tail(s)) THEN s[1] ELSE MaxOf(Tail(s))

\* the soft repeat count the reader derives: meta_val("val_soft_reps")[-1] + 1
ReaderSoftReps(dd) == dd.val_soft_reps[1][Len(dd.val_soft_reps[1])] + 1

\* C30: after any sequence of add_data calls the soft repeat ticks are 0..M with
\* M the largest soft repeat index appended so far, and the soft repeat count
\* the reader derives from them is M + 1.
C30_SoftRepTicks ==
    Len(qdd.msmts) > 0 =>
        /\ qdd.val_soft_reps = Some(Arange(MaxOf(qdd.soft_reps) + 1))
        /\ ReaderSoftReps(qdd) = MaxOf(qdd.soft_reps) + 1

-----------------------------------------------------------------------------
(* The values a swept register takes *)

\* the register's value after the sweep's reset followed by k updates
RegAtPoint(swp, k) == SweepResetInst(swp, 0).val + k * UpdateInst(swp, 0).val

\* C29: for a sweep over a raw integer register with integer start and stop,
\* the register's value at the k-th sweep point (reset followed by k updates)
\* is val2reg(sweep_array[k]); at the last point the register holds stop.
C29_RegisterFollowsPoints ==
    (fcall.f = "QickSweep" /\ fcall.args.expts >= 2 /\ fout.err = "") =>
        LET swp == fout.val IN
        /\ \A k \in 0..(swp.expts - 1) :
               RegAtPoint(swp, k) = val2reg(swp.sweep_array[k + 1])
        /\ RegAtPoint(swp, swp.expts - 1) = swp.stop

-----------------------------------------------------------------------------
(* What a loop's branch back re-runs before the next body *)

\* the sweeps whose reset instruction lies between address a and body
ResetsBeforeBody(a) ==
    {prog_list[x].swp : x \in {y \in a..(BodyAddr - 1) : prog_list[y].swp # 0}}

\* the sweeps whose loop counter is set between address a and body
ReloadsBeforeBody(a) ==
    {prog_list[x].addr - FirstCounterReg + 1 :
        x \in {y \in a..(BodyAddr - 1) :
                  /\ prog_list[y].op = "regwi"
                  /\ prog_list[y].page = 0
                  /\ prog_list[y].addr >= FirstCounterReg}}

\* the sweep whose loop a loopnz instruction closes; the repetition loop counts
\* as one past the last sweep
LoopOf(inst) ==
    IF inst.addr = rep_count THEN Len(qick_sweeps) + 1
    ELSE inst.addr - FirstCounterReg + 1

\* C23: when sweep k's loop branches back, exactly the sweeps registered before
\* k are reset and have their counters set again before the next body; when the
\* repetition loop branches back, all sweeps are.
C23_BranchBackResetsInner ==
    [][(phase = "running" /\ prog_list[pc].op = "loopnz" /\ pc' # pc + 1) =>
           /\ ResetsBeforeBody(pc') = 1..(LoopOf(prog_list[pc]) - 1)
           /\ ReloadsBeforeBody(pc') = 1..(LoopOf(prog_list[pc]) - 1)]_vars

-----------------------------------------------------------------------------
(* Termination of acquire_round's polling loop *)

\* a poll_data call that brings a chunk of the samples the hardware still owes
Deliver == hw_sent < TotalCount /\ \E n \in 1..MaxChunk : Poll(<<n>>)

\* the state before acquire is called without threshold and save_experiments,
\* for a single round: one acquire_round call
PollInit == AcqInit /\ signal = "ramp" /\ cfg_rounds = None

PollNext ==
    \/ \E r \in 1..MaxRpe : acquire(None, r, None)
    \/ \E sizes \in ChunkSizes : Poll(sizes)
    \/ RoundEnd

\* the acquisition with a hardware that eventually delivers every expected
\* sample, and a caller that goes on once the loop has ended
SpecPoll == PollInit /\ [][PollNext]_vars /\ WF_vars(Deliver) /\ WF_vars(RoundEnd)

\* C24: with a hardware that eventually delivers every expected sample, every
\* polling loop eventually ends and the call returns; while count is below
\* reps * expts * readouts_per_experiment the call does not return; and the
\* loop is left by an exception only when the hardware delivers more than the
\* expected samples.
C24_PollingTerminates ==
    /\ (acq_pc = "poll") ~> (acq_pc \in {"done", "error"})
    /\ [][(acq_pc = "poll" /\ count < reps * expts * rpe) =>
              /\ ii' = ii
              /\ acq_ret' = acq_ret
              /\ round_avgs' = round_avgs
              /\ acq_pc' \in {"poll", "error"}
              /\ acq_pc' = "error" => hw_sent' > reps * expts * rpe]_vars

\* C24 witness: a call has returned after its loop received the three or more
\* samples it waited for in two chunks or more.
C24_Witness ==
    /\ acq_pc = "done"
    /\ cfg_rounds = None
    /\ Len(stats) >= 2
    /\ count = reps * expts * rpe
    /\ count >= 3

-----------------------------------------------------------------------------
(* core/pulses.py: the envelopes *)

\* the smallest integer that is not below the fraction q
Ceil(q) == -((-q.num) \div q.den)

\* x / y of two floats, y > 0
FQuot(x, y) == Fl(RatMul(x, Rat(y.den, y.num)))

\* np.arange(0, length) for a float length: 0, 1, ..., ceil(length) - 1
ArangeTo(length) == [k \in 1..Ceil(length) |-> Rat(k - 1, 1)]

\* np.zeros(n) as floats
FZeros(n) == [k \in 1..n |-> Rat(0, 1)]

\* np.min(y) of a non-empty array
RECURSIVE MinFrom(_, _, _)
MinFrom(y, k, m) ==
    IF k > Len(y) THEN m
    ELSE MinFrom(y, k + 1, IF RatLeq(y[k], m) THEN y[k] ELSE m)
FMin(y) == MinFrom(y, 2, y[1])

\* y - np.min(y)
SubtractMin(y) ==
    LET m == CHOOSE v \in {FMin(y)} : TRUE
    IN  [j \in 1..Len(y) |-> FSub(y[j], m)]

\* np.exp(-t) for t >= 0, as the float nearest to 1 / (1 + t + t^2 / 2): a
\* positive value that falls as t grows
ExpNeg(t) ==
    LET d == FAdd(FAdd(Rat(1, 1), t), FDiv(FMul(t, t), 2))
    IN  Fl(Rat(d.den, d.num))

\* np.tanh(z): (1 - e) / (1 + e) with e = exp(-2 |z|), and the sign of z
tanh(z) ==
    LET e == ExpNeg(FMul(Rat(2, 1), RatAbs(z)))
        t == FQuot(FSub(Rat(1, 1), e), FAdd(Rat(1, 1), e))
    IN  IF z.num >= 0 THEN t ELSE Rat(-t.num, t.den)

\* np.arctanh at the two arguments tanh_box passes with its default
\* cut_offset: arctanh(2 * 0.01 - 1) = -2.2976 and arctanh(2 * 0.95 - 1) = 1.4722
arctanh(u) == IF u.num < 0 THEN Rat(-147, 64) ELSE Rat(47, 32)

\* cut_offset=0.01, as a float
cut_offset == Fl(Rat(1, 100))

\* tanh_box(length, ramp_width, cut_offset=0.01, maxv)
tanh_box(length, ramp_width, maxv) ==
    LET x   == ArangeTo(length)
        c0_ == arctanh(FSub(FMul(Rat(2, 1), cut_offset), Rat(1, 1)))
        c1_ == arctanh(FSub(FMul(Rat(2, 1), Fl(Rat(95, 100))), Rat(1, 1)))
        k_  == FQuot(FSub(c1_, c0_), ramp_width)
        y   == [j \in 1..Len(x) |->
                   FMul(FQuot(FSub(FDiv(FSub(tanh(FAdd(FMul(k_, x[j]), c0_)),
                                             tanh(FSub(FMul(k_, FSub(x[j], length)), c0_))),
                                        2),
                                   cut_offset),
                              FSub(Rat(1, 1), cut_offset)),
                        maxv)]
    IN  SubtractMin(CHOOSE v \in {y} : TRUE)

\* gaussian(sigma, length, maxv)
gaussian(sigma, length, maxv) ==
    LET x == ArangeTo(length)
        y == [j \in 1..Len(x) |->
                 LET d == FSub(x[j], FDiv(length, 2))
                 IN  FMul(maxv, ExpNeg(FQuot(FMul(d, d), FMul(sigma, sigma))))]
    IN  SubtractMin(CHOOSE v \in {y} : TRUE)

\* soccfg['gens'][ch] of every generator: samps_per_clk, f_fabric (MHz), maxv
\* and maxv_scale
soc_gencfg == [samps_per_clk |-> 4, f_fabric |-> Rat(2, 1), maxv |-> 32766,
               maxv_scale |-> Rat(1, 1)]

\* padding * fclk * samps_per_clk, and length * fclk * samps_per_clk
ToSamples(us) == FMul(FMul(us, soc_gencfg.f_fabric), Rat(soc_gencfg.samps_per_clk, 1))

\* a padding argument: a number, or a list of two numbers
PadNumber(x) == [kind |-> "number", val |-> <<x>>]
PadList(x, y) == [kind |-> "list", val |-> <<x, y>>]

\* add_padding(data, soc_gencfg, padding): a number pads behind the data, a
\* pair pads in front and behind
add_padding(data, padding) ==
    LET pair == IF padding.kind = "number" THEN <<Rat(0, 1), padding.val[1]>>
                ELSE padding.val
        padding_samp == [j \in 1..2 |-> Ceil(ToSamples(pair[j]))]
    IN  FZeros(padding_samp[1]) \o data \o FZeros(padding_samp[2])

\* a variant of the number of zeros appended that appends 16 to a full block
ZeroPaddingFull(n) == 16 - (n % 16)

\* (16 - len(wf)) % 16
ZeroPadding(n) == (16 - n) % 16

\* a variant of add_pulse that keeps every waveform of a channel under one name
add_pulse_unnamed(lib, ch, name, idata, qdata) ==
    (<<ch, "wf">> :> [idata |-> idata, qdata |-> qdata]) @@ lib

\* QickProgram.add_pulse(ch, name, idata, qdata)
add_pulse(lib, ch, name, idata, qdata) ==
    (<<ch, name>> :> [idata |-> idata, qdata |-> qdata]) @@ lib

\* maxv = soc_gencfg['maxv'] * soc_gencfg['maxv_scale']
DefaultMaxv == FMul(Fl(Rat(soc_gencfg.maxv, 1)), soc_gencfg.maxv_scale)

\* the rest of add_tanh and add_gaussian, with phase = 0 and drag = 0: the
\* padding, the zeros up to a multiple of 16, and add_pulse
PadAndAdd(lib, gen_ch, name, wf0, padding) ==
    LET wf        == IF padding # None THEN add_padding(wf0, padding[1]) ELSE wf0
        wf_padded == wf \o FZeros(ZeroPadding(Len(wf)))
    IN  add_pulse(lib, GenCh(gen_ch), name, wf_padded, FZeros(Len(wf_padded)))

\* add_tanh(prog, gen_ch, name, length, ramp_width, padding=padding)
add_tanh(lib, gen_ch, name, length, ramp_width, padding) ==
    PadAndAdd(lib, gen_ch, name,
              tanh_box(ToSamples(length), ToSamples(ramp_width), DefaultMaxv), padding)

\* add_gaussian(prog, gen_ch, name, sigma, length, padding=padding)
add_gaussian(lib, gen_ch, name, sigma, length, padding) ==
    PadAndAdd(lib, gen_ch, name,
              gaussian(ToSamples(sigma), ToSamples(length), DefaultMaxv), padding)

-----------------------------------------------------------------------------
(* APAveragerProgram.add_waveform *)

\* add_waveform(gen_ch, name, shape, **kwargs); kwargs holds length, padding
\* and the width: sigma or ramp_width
add_waveform(gen_ch, name, shape, kwargs) ==
    /\ fcall' = [f |-> "add_waveform",
                 args |-> [gen_ch |-> gen_ch, name |-> name, shape |-> shape,
                           kwargs |-> kwargs]]
    /\ IF shape = "gaussian"
       THEN /\ pulses' = add_gaussian(pulses, gen_ch, name, kwargs.width, kwargs.length,
                                      kwargs.padding)
            /\ fout' = Ok(None)
       ELSE IF shape = "tanh_box"
       THEN /\ pulses' = add_tanh(pulses, gen_ch, name, kwargs.length, kwargs.width,
                                  kwargs.padding)
            /\ fout' = Ok(None)
       ELSE /\ fout' = Raise("NameError")
            /\ UNCHANGED pulses
    /\ UNCHANGED <<ndvars, regvars, acqvars, cfgvars, ddvars>>

\* the calls: pulse lengths and widths in us, paddings in us
Shapes == {"gaussian", "tanh_box", "square"}
WaveNames == {"w1", "w2"}
WaveChs == {"g1"}
LengthsUs == {Rat(k, 16) : k \in {2, 5, 32, 33}}
WidthsUs == {Rat(1, 2)}
Paddings == {None, Some(PadNumber(Rat(1, 8))), Some(PadList(Rat(1, 16), Rat(1, 4)))}
WaveKwargs == [length : LengthsUs, width : WidthsUs, padding : Paddings]

WaveInit == NDIdle /\ RegIdle /\ AcqIdle /\ LibIdle

\* every waveform name is added once, and an exception ends the caller
WaveNext ==
    \E gen_ch \in WaveChs, name \in WaveNames, shape \in Shapes, kwargs \in WaveKwargs :
        /\ fout.err = ""
        /\ \A key \in DOMAIN pulses : key[2] # name
        /\ add_waveform(gen_ch, name, shape, kwargs)

SpecWave == WaveInit /\ [][WaveNext]_vars

\* the envelope of the latest add_waveform call, before and after add_padding
EnvelopeOf(a) ==
    IF a.shape = "gaussian"
    THEN gaussian(ToSamples(a.kwargs.width), ToSamples(a.kwargs.length), DefaultMaxv)
    ELSE tanh_box(ToSamples(a.kwargs.length), ToSamples(a.kwargs.width), DefaultMaxv)
PaddedEnvelopeOf(a) ==
    IF a.kwargs.padding = None THEN EnvelopeOf(a)
    ELSE add_padding(EnvelopeOf(a), a.kwargs.padding[1])

\* C21: the envelope add_tanh / add_gaussian builds has no negative sample and
\* a sample that is exactly 0; the samples handed to add_pulse are the
\* (optionally padded) envelope followed by fewer than 16 zeros, and their
\* number is a multiple of 16.
C21_EnvelopeAndBlocks ==
    (fcall.f = "add_waveform" /\ fout.err = "") =>
        \E env \in {EnvelopeOf(fcall.args)}, wf \in {PaddedEnvelopeOf(fcall.args)} :
            LET idata == pulses[<<GenCh(fcall.args.gen_ch), fcall.args.name>>].idata IN
            /\ \A j \in 1..Len(env) : env[j].num >= 0
            /\ \E j \in 1..Len(env) : env[j] = Rat(0, 1)
            /\ Len(idata) % 16 = 0
            /\ Len(idata) - Len(wf) \in 0..15
            /\ SubSeq(idata, 1, Len(wf)) = wf
            /\ \A j \in (Len(wf) + 1)..Len(idata) : idata[j] = Rat(0, 1)

\* C21 witness: a tanh-box envelope of 17 samples, padded in front and behind
\* to 20 samples, has been handed over as 32 samples.
C21_Witness ==
    /\ fcall.f = "add_waveform" /\ fout.err = ""
    /\ fcall.args.shape = "tanh_box"
    /\ fcall.args.kwargs.length = Rat(33, 16)
    /\ fcall.args.kwargs.padding = Some(PadList(Rat(1, 16), Rat(1, 4)))
    /\ Len(pulses[<<GenCh(fcall.args.gen_ch), fcall.args.name>>].idata) = 32
    /\ pulses[<<GenCh(fcall.args.gen_ch), fcall.args.name>>].idata[10].num > 0

\* C22: add_waveform with a shape other than 'gaussian' or 'tanh_box' raises
\* NameError and leaves the waveform library as it was; with one of the two it
\* adds exactly one waveform, under the given name on the given channel.
C22_ShapeTags ==
    [][LET a   == fcall'.args
           key == <<GenCh(a.gen_ch), a.name>>
       IN  IF a.shape \in {"gaussian", "tanh_box"}
           THEN /\ fout'.err = ""
                /\ key \notin DOMAIN pulses
                /\ DOMAIN pulses' = DOMAIN pulses \cup {key}
                /\ \A k \in DOMAIN pulses : pulses'[k] = pulses[k]
           ELSE /\ fout' = Raise("NameError")
                /\ pulses' = pulses]_vars

\* C22 witness: a call with shape 'square' has failed on a program that holds a
\* waveform.
C22_Witness ==
    /\ fcall.f = "add_waveform"
    /\ fcall.args.shape = "square"
    /\ fout = Raise("NameError")
    /\ DOMAIN pulses # {}

=============================================================================
